---------------------------- MODULE Spec2Model ----------------------------
(***************************************************************************)
(* A model of the btc client: the wire codec of lib/src/lib.rs (Scanner,   *)
(* the BitcoinType implementations, the message envelope) and the session  *)
(* worker of cli/src/main.rs (Client, bitcoin_handling) with the           *)
(* controller that feeds its command queue and the peer behind its socket. *)
(*                                                                         *)
(* Integers keep their Rust width.  TLC's integers are 32-bit, so a u32 is *)
(* a tuple of two and a u64/usize a tuple of four base-65536 digits, least *)
(* significant first; u8 and u16 are plain numbers.  Byte strings are      *)
(* sequences of 0..255.                                                    *)
(***************************************************************************)
EXTENDS Integers, Sequences, FiniteSets, TLC

(***************************************************************************)
(* Fixed-width unsigned integers                                           *)
(***************************************************************************)
LimbBase == 65536

ByteBase == 256

\* n as a u64 (n fits one digit)
U64(n) == <<n, 0, 0, 0>>

\* n as a u32 (n fits one digit)
U32(n) == <<n, 0>>

\* `x as usize` / `x as u64` for a narrower x given as digits: zero extension
Widen(x, limbs) == [i \in 1..limbs |-> IF i <= Len(x) THEN x[i] ELSE 0]

\* `x as u32`, `x as u16` for a wider x: truncation to the low digits
Truncate(x, limbs) == [i \in 1..limbs |-> x[i]]

\* a < b on equally long digit tuples
RECURSIVE LimbsLt(_, _)
LimbsLt(a, b) ==
    IF Len(a) = 0 THEN FALSE
    ELSE LET n == Len(a) IN
         IF a[n] # b[n] THEN a[n] < b[n]
         ELSE LimbsLt(SubSeq(a, 1, n - 1), SubSeq(b, 1, n - 1))

LimbsLe(a, b) == a = b \/ LimbsLt(a, b)

\* to_le_bytes of a digit tuple
RECURSIVE to_le_bytes(_)
to_le_bytes(x) ==
    IF Len(x) = 0 THEN <<>>
    ELSE <<x[1] % ByteBase, x[1] \div ByteBase>> \o to_le_bytes(Tail(x))

\* from_le_bytes: an even number of bytes to a digit tuple
from_le_bytes(bs) ==
    [i \in 1..(Len(bs) \div 2) |-> bs[2 * i - 1] + ByteBase * bs[2 * i]]

\* u16::to_be_bytes / u16::from_be_bytes (the port of a socket address)
to_be_bytes(p) == <<p \div ByteBase, p % ByteBase>>

from_be_bytes(bs) == bs[1] * ByteBase + bs[2]

RECURSIVE Pow2(_)
Pow2(k) == IF k = 0 THEN 1 ELSE 2 * Pow2(k - 1)

\* bitwise and of two 16-bit digits
RECURSIVE BitAnd16(_, _)
BitAnd16(a, b) ==
    IF a = 0 \/ b = 0 THEN 0
    ELSE (a % 2) * (b % 2) + 2 * BitAnd16(a \div 2, b \div 2)

\* u64 & u64
U64And(a, b) == [i \in 1..4 |-> BitAnd16(a[i], b[i])]

\* u64 << k, for k < 16
U64Shl(a, k) ==
    [i \in 1..4 |->
        ((a[i] * Pow2(k)) % LimbBase)
        + (IF i > 1 THEN a[i - 1] \div Pow2(16 - k) ELSE 0)]

\* u64 >> k, for k < 16
U64Shr(a, k) ==
    [i \in 1..4 |->
        (a[i] \div Pow2(k))
        + (IF i < 4 THEN (a[i + 1] % Pow2(k)) * Pow2(16 - k) ELSE 0)]

\* `b as u64` for a bool
BoolAsU64(b) == IF b THEN U64(1) ELSE U64(0)

(***************************************************************************)
(* Scanner.  A decoder takes the scanner's bytes and cursor and returns    *)
(* Ok(value, cursor') or Panic: a slice out of range, an unwrap on Err and *)
(* a panic! all unwind the calling thread.                                 *)
(***************************************************************************)
Panic == [ok |-> FALSE]

Ok(v, it) == [ok |-> TRUE, v |-> v, it |-> it]

\* Scanner::new
Scanner_new(bytes) == [bytes |-> bytes, it |-> 0]

\* a take that hands out what is left and moves the cursor by amnt anyway
take_past(bytes, it, amnt) ==
    Ok(SubSeq(bytes, it + 1, IF it + amnt <= Len(bytes) THEN it + amnt ELSE Len(bytes)),
       it + amnt)

\* Scanner::take
take(bytes, it, amnt) ==
    IF it + amnt <= Len(bytes)
    THEN Ok(SubSeq(bytes, it + 1, it + amnt), it + amnt)
    ELSE Panic

\* Scanner::peek
peek(bytes, it, amnt) ==
    IF it + amnt <= Len(bytes)
    THEN Ok(SubSeq(bytes, it + 1, it + amnt), it)
    ELSE Panic

(***************************************************************************)
(* Primitive codecs.  A decoder that reads several fields passes each      *)
(* field read on to the rest of the decoder; a panic on the way ends it.   *)
(***************************************************************************)
\* the rest K of a decoder after the field r
AndThen(r, K(_)) == IF r.ok THEN K(r) ELSE Panic

\* the value of the last field r, converted by F
Map(r, F(_)) == IF r.ok THEN Ok(F(r.v), r.it) ELSE Panic

u8_to_blob(v) == <<v>>

u8_from_blob(bytes, it) == Map(take(bytes, it, 1), LAMBDA b : b[1])

u16_to_blob(v) == to_le_bytes(<<v>>)

u16_from_blob(bytes, it) ==
    Map(take(bytes, it, 2), LAMBDA b : from_le_bytes(b)[1])

u32_to_blob(v) == to_le_bytes(v)

u32_from_blob(bytes, it) == Map(take(bytes, it, 4), from_le_bytes)

u64_to_blob(v) == to_le_bytes(v)

u64_from_blob(bytes, it) == Map(take(bytes, it, 8), from_le_bytes)

bool_to_blob(v) == u8_to_blob(IF v THEN 1 ELSE 0)

bool_from_blob(bytes, it) == Map(u8_from_blob(bytes, it), LAMBDA v : v # 0)

\* a count always in its widest form
usize_to_blob_wide(v) == <<255>> \o to_le_bytes(v)

usize_to_blob_off(v) ==
    IF LimbsLe(v, U64(253))
    THEN <<v[1] % ByteBase>>
    ELSE IF LimbsLe(v, <<65535, 0, 0, 0>>)
    THEN <<253>> \o to_le_bytes(Truncate(v, 1))
    ELSE IF LimbsLe(v, <<65535, 65535, 0, 0>>)
    THEN <<254>> \o to_le_bytes(Truncate(v, 2))
    ELSE <<255>> \o to_le_bytes(v)

\* the variable-length count (usize is 64 bits wide)
usize_to_blob(v) ==
    IF LimbsLt(v, U64(253))
    THEN <<v[1] % ByteBase>>
    ELSE IF LimbsLe(v, <<65535, 0, 0, 0>>)
    THEN <<253>> \o to_le_bytes(Truncate(v, 1))
    ELSE IF LimbsLe(v, <<65535, 65535, 0, 0>>)
    THEN <<254>> \o to_le_bytes(Truncate(v, 2))
    ELSE <<255>> \o to_le_bytes(v)

usize_from_blob(bytes, it) ==
    AndThen(u8_from_blob(bytes, it), LAMBDA first_byte :
        IF first_byte.v = 255 THEN u64_from_blob(bytes, first_byte.it)
        ELSE IF first_byte.v = 254
        THEN Map(u32_from_blob(bytes, first_byte.it), LAMBDA v : Widen(v, 4))
        ELSE IF first_byte.v = 253
        THEN Map(u16_from_blob(bytes, first_byte.it), U64)
        ELSE Ok(U64(first_byte.v), first_byte.it))

(***************************************************************************)
(* String, SystemTime, arrays and vectors                                  *)
(***************************************************************************)
\* String::from_utf8_lossy on the strings of the model: ASCII bytes and
\* bytes that start no UTF-8 sequence, each of which becomes U+FFFD
RECURSIVE from_utf8_lossy(_)
from_utf8_lossy(bs) ==
    IF Len(bs) = 0 THEN <<>>
    ELSE (IF bs[1] < 128 THEN <<bs[1]>> ELSE <<239, 191, 189>>)
         \o from_utf8_lossy(Tail(bs))

\* a String is the sequence of its UTF-8 bytes
String_to_blob(s) == usize_to_blob(U64(Len(s))) \o s

\* a count as a number, when it does not exceed max
CountWithin(c, max) == c[2] = 0 /\ c[3] = 0 /\ c[4] = 0 /\ c[1] <= max

String_from_blob(bytes, it) ==
    AndThen(usize_from_blob(bytes, it), LAMBDA len :
        IF ~CountWithin(len.v, Len(bytes) - len.it) THEN Panic
        ELSE Map(take(bytes, len.it, len.v[1]), from_utf8_lossy))

\* a SystemTime at or after the epoch: whole seconds (u64) and nanoseconds
SystemTime_to_blob(t) == u64_to_blob(t.secs)

\* UNIX_EPOCH + Duration::from_secs(secs) overflows the i64 seconds of a
\* SystemTime when secs >= 2^63
SystemTime_from_blob(bytes, it) ==
    AndThen(u64_from_blob(bytes, it), LAMBDA secs :
        IF secs.v[4] >= 32768 THEN Panic
        ELSE Ok([secs |-> secs.v, nanos |-> 0], secs.it))

\* the concatenation of a sequence of sequences (by halves, which keeps
\* the evaluation shallow)
RECURSIVE Flatten(_)
Flatten(ss) ==
    IF Len(ss) = 0 THEN <<>>
    ELSE IF Len(ss) = 1 THEN ss[1]
    ELSE Flatten(SubSeq(ss, 1, Len(ss) \div 2))
         \o Flatten(SubSeq(ss, Len(ss) \div 2 + 1, Len(ss)))

(***************************************************************************)
(* Services, SocketAddr, NetAddr                                           *)
(***************************************************************************)
\* Services::default()
DefaultServices ==
    [network |-> FALSE, getutxo |-> FALSE, bloom |-> FALSE, witness |-> FALSE,
     xthin |-> FALSE, compact_filters |-> FALSE, network_limited |-> FALSE]

\* (bitfield >> k) & 1 == 1
Bit(bitfield, k) == U64And(U64Shr(bitfield, k), U64(1)) = U64(1)

\* the Services a bitfield decodes to
ServicesOf(bitfield) ==
    [network |-> Bit(bitfield, 1), getutxo |-> Bit(bitfield, 2),
     bloom |-> Bit(bitfield, 3), witness |-> Bit(bitfield, 4),
     xthin |-> Bit(bitfield, 5), compact_filters |-> Bit(bitfield, 7),
     network_limited |-> Bit(bitfield, 10)]

Services_from_blob(bytes, it) == Map(u64_from_blob(bytes, it), ServicesOf)

Services_to_blob(s) ==
    u64_to_blob(
        U64And(U64Shl(BoolAsU64(s.network), 1),
        U64And(U64Shl(BoolAsU64(s.getutxo), 2),
        U64And(U64Shl(BoolAsU64(s.bloom), 3),
        U64And(U64Shl(BoolAsU64(s.witness), 4),
        U64And(U64Shl(BoolAsU64(s.xthin), 5),
        U64And(U64Shl(BoolAsU64(s.compact_filters), 7),
               U64Shl(BoolAsU64(s.network_limited), 10))))))))

\* SocketAddrV6::new(ip, port, flowinfo, scope_id); equality of socket
\* addresses compares all four
SocketAddrV6_new(ip, port, flowinfo, scope_id) ==
    [v4 |-> FALSE, ip |-> ip, port |-> port, flowinfo |-> flowinfo,
     scope_id |-> scope_id]

\* SocketAddr::new(ip, port): flowinfo and scope_id of a V6 address are 0
\* (a V4 address has neither: they stay 0)
SocketAddr_new(v4, ip, port) ==
    [v4 |-> v4, ip |-> ip, port |-> port, flowinfo |-> 0, scope_id |-> 0]

\* Ipv4Addr::to_ipv6_mapped
to_ipv6_mapped(ip) == <<0, 0, 0, 0, 0, 0, 0, 0, 0, 0, 255, 255>> \o ip

IsIpv4Mapped_never(ip) == FALSE

\* Ipv6Addr::to_ipv4_mapped: Some exactly for ::ffff:a.b.c.d
IsIpv4Mapped(ip) ==
    SubSeq(ip, 1, 12) = <<0, 0, 0, 0, 0, 0, 0, 0, 0, 0, 255, 255>>

SocketAddr_to_blob(a) ==
    (IF a.v4 THEN to_ipv6_mapped(a.ip) ELSE a.ip) \o to_be_bytes(a.port)

SocketAddr_from_blob(bytes, it) ==
    AndThen(take(bytes, it, 16), LAMBDA ip :
        Map(take(bytes, ip.it, 2), LAMBDA port :
            IF IsIpv4Mapped(ip.v)
            THEN SocketAddr_new(TRUE, SubSeq(ip.v, 13, 16), from_be_bytes(port))
            ELSE SocketAddr_new(FALSE, ip.v, from_be_bytes(port))))

NetAddr_to_blob(a) == Services_to_blob(a.services) \o SocketAddr_to_blob(a.addr)

NetAddr_from_blob(bytes, it) ==
    AndThen(Services_from_blob(bytes, it), LAMBDA services :
        Map(SocketAddr_from_blob(bytes, services.it), LAMBDA addr :
            [services |-> services.v, addr |-> addr]))

(***************************************************************************)
(* The derived compounds: fields in declaration order                      *)
(***************************************************************************)
Version_to_blob(p) ==
    u32_to_blob(p.proto_ver) \o Services_to_blob(p.services)
    \o SystemTime_to_blob(p.time) \o NetAddr_to_blob(p.remote)
    \o NetAddr_to_blob(p.local) \o u64_to_blob(p.nonce)
    \o String_to_blob(p.user_agent) \o u32_to_blob(p.last_block)
    \o bool_to_blob(p.relay)

Version_from_blob(bytes, it) ==
    AndThen(u32_from_blob(bytes, it), LAMBDA proto_ver :
    AndThen(Services_from_blob(bytes, proto_ver.it), LAMBDA services :
    AndThen(SystemTime_from_blob(bytes, services.it), LAMBDA time :
    AndThen(NetAddr_from_blob(bytes, time.it), LAMBDA remote :
    AndThen(NetAddr_from_blob(bytes, remote.it), LAMBDA local :
    AndThen(u64_from_blob(bytes, local.it), LAMBDA nonce :
    AndThen(String_from_blob(bytes, nonce.it), LAMBDA user_agent :
    AndThen(u32_from_blob(bytes, user_agent.it), LAMBDA last_block :
    Map(bool_from_blob(bytes, last_block.it), LAMBDA relay :
        [proto_ver |-> proto_ver.v, services |-> services.v,
         time |-> time.v, remote |-> remote.v, local |-> local.v,
         nonce |-> nonce.v, user_agent |-> user_agent.v,
         last_block |-> last_block.v, relay |-> relay])))))))))

SendCmpct_to_blob(p) == bool_to_blob(p.flag) \o u64_to_blob(p.integer)

SendCmpct_from_blob(bytes, it) ==
    AndThen(bool_from_blob(bytes, it), LAMBDA flag :
        Map(u64_from_blob(bytes, flag.it), LAMBDA integer :
            [flag |-> flag.v, integer |-> integer]))

FeeFilter_to_blob(p) == u64_to_blob(p.feerate)

FeeFilter_from_blob(bytes, it) ==
    Map(u64_from_blob(bytes, it), LAMBDA feerate : [feerate |-> feerate])

\* InventoryKind and its u32 code
InventoryKinds ==
    { <<"Error", <<0, 0>> >>, <<"Tx", <<1, 0>> >>, <<"Block", <<2, 0>> >>,
      <<"FilteredBlock", <<3, 0>> >>, <<"CmpctBlock", <<4, 0>> >>,
      <<"WitnessTx", <<1, 16384>> >>, <<"WitnessBlock", <<2, 16384>> >>,
      <<"FilteredWitnessBlock", <<3, 16384>> >> }

InventoryElement_to_blob(e) ==
    u32_to_blob((CHOOSE k \in InventoryKinds : k[1] = e.kind)[2]) \o e.hash

InventoryElement_from_blob(bytes, it) ==
    AndThen(u32_from_blob(bytes, it), LAMBDA kind :
        IF ~(\E k \in InventoryKinds : k[2] = kind.v) THEN Panic
        ELSE Map(take(bytes, kind.it, 32), LAMBDA hash :
                 [kind |-> (CHOOSE k \in InventoryKinds : k[2] = kind.v)[1],
                  hash |-> hash]))

AddrElement_to_blob(e) == u32_to_blob(e.timestamp) \o NetAddr_to_blob(e.addr)

AddrElement_from_blob(bytes, it) ==
    AndThen(u32_from_blob(bytes, it), LAMBDA timestamp :
        Map(NetAddr_from_blob(bytes, timestamp.it), LAMBDA addr :
            [timestamp |-> timestamp.v, addr |-> addr]))

(***************************************************************************)
(* [T; N] and Vec<T>, for the element types T the program and its tests    *)
(* use them with                                                           *)
(***************************************************************************)
T_to_blob(ty, v) ==
    CASE ty = "u8" -> u8_to_blob(v)
      [] ty = "u16" -> u16_to_blob(v)
      [] ty = "u32" -> u32_to_blob(v)
      [] ty = "u64" -> u64_to_blob(v)
      [] ty = "bool" -> bool_to_blob(v)
      [] ty = "usize" -> usize_to_blob(v)
      [] ty = "InventoryElement" -> InventoryElement_to_blob(v)
      [] ty = "AddrElement" -> AddrElement_to_blob(v)

T_from_blob(ty, bytes, it) ==
    CASE ty = "u8" -> u8_from_blob(bytes, it)
      [] ty = "u16" -> u16_from_blob(bytes, it)
      [] ty = "u32" -> u32_from_blob(bytes, it)
      [] ty = "u64" -> u64_from_blob(bytes, it)
      [] ty = "bool" -> bool_from_blob(bytes, it)
      [] ty = "usize" -> usize_from_blob(bytes, it)
      [] ty = "InventoryElement" -> InventoryElement_from_blob(bytes, it)
      [] ty = "AddrElement" -> AddrElement_from_blob(bytes, it)

array_to_blob(ty, a) == Flatten([i \in 1..Len(a) |-> T_to_blob(ty, a[i])])

\* for _ in 0..n { ret.push(T::from_blob(blob)) }: the first half of the
\* elements, then the rest from where the first half ended
RECURSIVE array_from_blob(_, _, _, _)
array_from_blob(ty, n, bytes, it) ==
    IF n = 0 THEN Ok(<<>>, it)
    ELSE IF n = 1 THEN Map(T_from_blob(ty, bytes, it), LAMBDA v : <<v>>)
    ELSE AndThen(array_from_blob(ty, n \div 2, bytes, it), LAMBDA front :
             Map(array_from_blob(ty, n - (n \div 2), bytes, front.it),
                 LAMBDA rest : front.v \o rest))

Vec_to_blob(ty, v) == usize_to_blob(U64(Len(v))) \o array_to_blob(ty, v)

\* every element takes at least one byte, so a count above the bytes left
\* ends in a slice out of range (or in Vec::with_capacity giving up)
Vec_from_blob(ty, bytes, it) ==
    AndThen(usize_from_blob(bytes, it), LAMBDA count :
        IF ~CountWithin(count.v, Len(bytes) - count.it) THEN Panic
        ELSE array_from_blob(ty, count.v[1], bytes, count.it))

Inv_to_blob(p) == Vec_to_blob("InventoryElement", p.inventory)

Inv_from_blob(bytes, it) ==
    Map(Vec_from_blob("InventoryElement", bytes, it),
        LAMBDA inventory : [inventory |-> inventory])

Addr_to_blob(p) == Vec_to_blob("AddrElement", p.addr_list)

Addr_from_blob(bytes, it) ==
    Map(Vec_from_blob("AddrElement", bytes, it),
        LAMBDA addr_list : [addr_list |-> addr_list])

BitcoinHeader_from_blob(bytes, it) ==
    AndThen(array_from_blob("u8", 4, bytes, it), LAMBDA magic :
    AndThen(array_from_blob("u8", 12, bytes, magic.it), LAMBDA command :
    AndThen(u32_from_blob(bytes, command.it), LAMBDA size :
    Map(array_from_blob("u8", 4, bytes, size.it), LAMBDA check_sum :
        [magic |-> magic.v, command |-> command.v, size |-> size.v,
         check_sum |-> check_sum]))))

(***************************************************************************)
(* The message envelope.  A BitcoinMsg is its payload: the variant's tag   *)
(* and value (<<>> for the variants without one).                          *)
(***************************************************************************)
\* magic bytes
Magic == <<249, 190, 180, 217>>

\* variant and command name (ASCII)
Commands ==
    { <<"Version", <<118, 101, 114, 115, 105, 111, 110>>>>,
      <<"VerAck", <<118, 101, 114, 97, 99, 107>>>>,
      <<"SendHeaders", <<115, 101, 110, 100, 104, 101, 97, 100, 101, 114, 115>>>>,
      <<"SendCmpct", <<115, 101, 110, 100, 99, 109, 112, 99, 116>>>>,
      <<"Ping", <<112, 105, 110, 103>>>>,
      <<"Pong", <<112, 111, 110, 103>>>>,
      <<"FeeFilter", <<102, 101, 101, 102, 105, 108, 116, 101, 114>>>>,
      <<"Inv", <<105, 110, 118>>>>,
      <<"GetAddr", <<103, 101, 116, 97, 100, 100, 114>>>>,
      <<"Addr", <<97, 100, 100, 114>>>> }

CommandOf(tag) == (CHOOSE c \in Commands : c[1] = tag)[2]

\* Vec::resize(12, 0) of a shorter command name
resize(command, n) == command \o [i \in 1..(n - Len(command)) |-> 0]

PayloadBlob(m) ==
    CASE m.tag = "Version" -> Version_to_blob(m.p)
      [] m.tag = "VerAck" -> <<>>
      [] m.tag = "SendHeaders" -> <<>>
      [] m.tag = "SendCmpct" -> SendCmpct_to_blob(m.p)
      [] m.tag = "Ping" -> u64_to_blob(m.p)
      [] m.tag = "Pong" -> u64_to_blob(m.p)
      [] m.tag = "FeeFilter" -> FeeFilter_to_blob(m.p)
      [] m.tag = "Inv" -> Inv_to_blob(m.p)
      [] m.tag = "GetAddr" -> <<>>
      [] m.tag = "Addr" -> Addr_to_blob(m.p)

\* payload.len() as u32 (payloads are far shorter than 65536 bytes)
LenAsU32(payload) == U32(Len(payload))

\* BitcoinMsg::getaddr, ping, pong, verack
getaddr == [tag |-> "GetAddr", p |-> <<>>]

ping(nonce) == [tag |-> "Ping", p |-> nonce]

pong(nonce) == [tag |-> "Pong", p |-> nonce]

verack == [tag |-> "VerAck", p |-> <<>>]

\* BitcoinMsg::version; now is the reading of SystemTime::now()
version(local, remote, user_agent, nonce, last_block, relay, now) ==
    [tag |-> "Version",
     p |-> [proto_ver |-> <<4478, 1>>, time |-> now,
            services |-> local.services, remote |-> remote, local |-> local,
            nonce |-> nonce, user_agent |-> user_agent,
            last_block |-> last_block, relay |-> relay]]

(***************************************************************************)
(* Values: the inputs of the codec runs and the messages of the session    *)
(***************************************************************************)
\* longest vector among the inputs (besides the one that needs a 0xfd count)
MaxVecLen == 2

\* all sequences over S of length at most n
SeqsUpTo(S, n) == UNION {[1..k -> S] : k \in 0..n}

U8Values == {0, 1, 127, 128, 252, 253, 254, 255}

U16Values == {0, 1, 255, 256, 4660, 65535}

U32Values == {<<0, 0>>, <<1, 0>>, <<65535, 0>>, <<0, 1>>, <<22136, 4660>>,
              <<65535, 65535>>}

U64Values ==
    {U64(0), U64(1), U64(69), <<65535, 65535, 0, 0>>, <<0, 0, 1, 0>>,
     <<61185, 52719, 35243, 291>>, <<65535, 65535, 65535, 65535>>}

\* 0, 0xfc, 0xfd, 0xffff, 0x10000, 0xffffffff, 0x100000000, 2^64 - 1 and
\* their neighbours
UsizeValues ==
    {U64(0), U64(1), U64(252), U64(253), U64(254), U64(255), U64(256),
     U64(65534), U64(65535), <<0, 1, 0, 0>>, <<1, 1, 0, 0>>,
     <<65535, 65535, 0, 0>>, <<0, 0, 1, 0>>, <<1, 0, 1, 0>>,
     <<65535, 65535, 65535, 32767>>, <<65535, 65535, 65535, 65535>>}

Hash1 == [i \in 1..32 |-> i]

InventoryValues ==
    {[kind |-> "Tx", hash |-> Hash1],
     [kind |-> "WitnessBlock", hash |-> [i \in 1..32 |-> 255]]}

Addr4 == SocketAddr_new(TRUE, <<127, 0, 0, 1>>, 8333)

Addr6 ==
    SocketAddr_new(FALSE, <<32, 1, 13, 184, 0, 0, 0, 0, 0, 0, 0, 0, 0, 0, 0, 1>>,
                   18333)

\* socket addresses of both families; among the V6 ones ::ffff:127.0.0.1,
\* fe80::1 with scope 3, 2001:db8::1 with flow information 7, and
\* ::fffe:127.0.0.1 next to the mapped range
SocketAddrValues ==
    {Addr4, Addr6,
     SocketAddrV6_new(<<0, 0, 0, 0, 0, 0, 0, 0, 0, 0, 255, 255, 127, 0, 0, 1>>,
                      8333, 0, 0),
     SocketAddrV6_new(<<254, 128, 0, 0, 0, 0, 0, 0, 0, 0, 0, 0, 0, 0, 0, 1>>,
                      8333, 0, 3),
     SocketAddrV6_new(Addr6.ip, Addr6.port, 7, 0),
     SocketAddr_new(TRUE, <<0, 0, 0, 0>>, 0),
     SocketAddr_new(TRUE, <<255, 255, 255, 255>>, 65535),
     SocketAddr_new(TRUE, <<10, 0, 255, 255>>, 256),
     SocketAddr_new(FALSE, [i \in 1..16 |-> 0], 1),
     SocketAddr_new(FALSE, [i \in 1..16 |-> IF i = 16 THEN 1 ELSE 0], 255),
     SocketAddr_new(FALSE, <<0, 0, 0, 0, 0, 0, 0, 0, 0, 0, 255, 254, 127, 0, 0, 1>>,
                    8333),
     SocketAddr_new(FALSE, [i \in 1..16 |-> 255], 65535)}

\* every combination of the seven flags
AllServices ==
    [network : BOOLEAN, getutxo : BOOLEAN, bloom : BOOLEAN, witness : BOOLEAN,
     xthin : BOOLEAN, compact_filters : BOOLEAN, network_limited : BOOLEAN]

ServicesValues ==
    {DefaultServices,
     [DefaultServices EXCEPT !.network = TRUE],
     [DefaultServices EXCEPT !.witness = TRUE, !.network_limited = TRUE]}

\* a reading of the clock: 1700000000 s and some nanoseconds after the epoch
Now == [secs |-> <<61696, 25939, 0, 0>>, nanos |-> 500]

\* a u32 timestamp a minute before Now, and one a minute after it
Earlier == <<61636, 25939>>

Later == <<61756, 25939>>

AddrElementValues ==
    {[timestamp |-> Earlier, addr |-> [services |-> DefaultServices, addr |-> Addr4]],
     [timestamp |-> Later, addr |-> [services |-> DefaultServices, addr |-> Addr6]],
     [timestamp |-> Earlier,
      addr |-> [services |-> [DefaultServices EXCEPT !.network = TRUE],
                addr |-> Addr4]]}

\* "my bitcoin client"
UserAgent ==
    <<109, 121, 32, 98, 105, 116, 99, 111, 105, 110, 32, 99, 108, 105, 101,
      110, 116>>

VersionValues ==
    {[proto_ver |-> <<4478, 1>>, services |-> s, time |-> t,
      remote |-> [services |-> s, addr |-> Addr6],
      local |-> [services |-> DefaultServices, addr |-> Addr4],
      nonce |-> U64(69), user_agent |-> ua, last_block |-> <<0, 0>>,
      relay |-> TRUE] :
        s \in ServicesValues,
        t \in {[secs |-> Now.secs, nanos |-> 0], Now},
        ua \in {UserAgent, <<>>}}

Typed(kind, ty, vs) == {[kind |-> kind, ty |-> ty, v |-> v] : v \in vs}

\* the inputs of the codec runs, one set per type; the messages of the ten
\* variants come one set per shape of payload
CodecInputFamilies ==
    <<Typed("prim", "u8", U8Values),
      Typed("prim", "u16", U16Values),
      Typed("prim", "u32", U32Values),
      Typed("prim", "u64", U64Values),
      Typed("prim", "bool", BOOLEAN),
      Typed("prim", "usize", UsizeValues),
      Typed("array", "u8", {Magic, resize(CommandOf("Ping"), 12), <<>>}),
      Typed("array", "u16", {<<0, 65535, 256>>}),
      Typed("Vec", "u8",
            SeqsUpTo({0, 253}, MaxVecLen)
            \cup {[i \in 1..n |-> i % ByteBase] : n \in {252, 253, 300}}),
      Typed("Vec", "u64", SeqsUpTo({U64(1), <<0, 0, 0, 65535>>}, MaxVecLen)),
      Typed("Vec", "bool", SeqsUpTo(BOOLEAN, MaxVecLen)),
      Typed("SocketAddr", "SocketAddr", SocketAddrValues),
      Typed("Services", "Services", AllServices),
      Typed("BitcoinMsg", "BitcoinMsg",
            {[tag |-> "Version", p |-> p] : p \in VersionValues}),
      Typed("BitcoinMsg", "BitcoinMsg",
            {[tag |-> t, p |-> <<>>] : t \in {"VerAck", "SendHeaders", "GetAddr"}}),
      Typed("BitcoinMsg", "BitcoinMsg",
            {[tag |-> "SendCmpct", p |-> [flag |-> f, integer |-> U64(2)]] :
                f \in BOOLEAN}),
      Typed("BitcoinMsg", "BitcoinMsg",
            {[tag |-> t, p |-> n] :
                t \in {"Ping", "Pong"},
                n \in {U64(42), <<65535, 65535, 65535, 65535>>}}),
      Typed("BitcoinMsg", "BitcoinMsg",
            {[tag |-> "FeeFilter", p |-> [feerate |-> U64(1000)]]}),
      Typed("BitcoinMsg", "BitcoinMsg",
            {[tag |-> "Inv", p |-> [inventory |-> v]] :
                v \in SeqsUpTo(InventoryValues, MaxVecLen)}),
      Typed("BitcoinMsg", "BitcoinMsg",
            {[tag |-> "Addr", p |-> [addr_list |-> v]] :
                v \in SeqsUpTo(AddrElementValues, MaxVecLen)})>>

\* the version message Client::connect sends to addr
ConnectVersion(addr) ==
    version([services |-> DefaultServices, addr |-> Addr4],
            [services |-> DefaultServices, addr |-> addr],
            UserAgent, U64(69), <<0, 0>>, TRUE, Now)

PeerVersion ==
    [tag |-> "Version",
     p |-> [proto_ver |-> <<4478, 1>>, services |-> DefaultServices,
            time |-> [secs |-> Now.secs, nanos |-> 0],
            remote |-> [services |-> DefaultServices, addr |-> Addr4],
            local |-> [services |-> DefaultServices, addr |-> Addr6],
            nonce |-> U64(1), user_agent |-> <<47, 120, 47>>,
            last_block |-> <<0, 0>>, relay |-> TRUE]]

\* messages the decoders accept
GoodMsgs ==
    <<PeerVersion, verack, ping(U64(42)), pong(U64(7)),
      [tag |-> "Inv", p |-> [inventory |-> <<[kind |-> "Tx", hash |-> Hash1]>>]],
      [tag |-> "Addr",
       p |-> [addr_list |->
                <<[timestamp |-> Earlier,
                   addr |-> [services |-> DefaultServices, addr |-> Addr4]]>>]]>>

\* bytes with the lowest bit of the last one flipped
FlipLast(bytes) ==
    [bytes EXCEPT ![Len(bytes)] = IF @ % 2 = 0 THEN @ + 1 ELSE @ - 1]

(***************************************************************************)
(* Sha256::digest (FIPS 180-4) on bytes.  A 32-bit word is a u32: two      *)
(* limbs, the low one first.  The bitwise functions work on the four bits  *)
(* of a nibble and are tabulated over the nibbles of three operands.       *)
(***************************************************************************)
Pow16 == <<1, 16, 256, 4096>>

Nib(x, k) == (x \div Pow16[k + 1]) % 16

\* the bits 0..3 of a nibble
NibBits(n) == <<n % 2, (n \div 2) % 2, (n \div 4) % 2, n \div 8>>

\* the nibbles x, y, z at index 256 x + 16 y + z + 1 of a table
NibX(i) == NibBits((i - 1) \div 256)

NibY(i) == NibBits(((i - 1) \div 16) % 16)

NibZ(i) == NibBits((i - 1) % 16)

\* x ^ y ^ z, (x & y) ^ (!x & z) and (x & y) ^ (x & z) ^ (y & z) on nibbles
Xor3Table ==
    [i \in 1..4096 |->
        ((NibX(i)[1] + NibY(i)[1] + NibZ(i)[1]) % 2)
        + 2 * ((NibX(i)[2] + NibY(i)[2] + NibZ(i)[2]) % 2)
        + 4 * ((NibX(i)[3] + NibY(i)[3] + NibZ(i)[3]) % 2)
        + 8 * ((NibX(i)[4] + NibY(i)[4] + NibZ(i)[4]) % 2)] \o <<>>

ChTable ==
    [i \in 1..4096 |->
        (IF NibX(i)[1] = 1 THEN NibY(i)[1] ELSE NibZ(i)[1])
        + 2 * (IF NibX(i)[2] = 1 THEN NibY(i)[2] ELSE NibZ(i)[2])
        + 4 * (IF NibX(i)[3] = 1 THEN NibY(i)[3] ELSE NibZ(i)[3])
        + 8 * (IF NibX(i)[4] = 1 THEN NibY(i)[4] ELSE NibZ(i)[4])] \o <<>>

MajTable ==
    [i \in 1..4096 |->
        (NibX(i)[1] + NibY(i)[1] + NibZ(i)[1]) \div 2
        + 2 * ((NibX(i)[2] + NibY(i)[2] + NibZ(i)[2]) \div 2)
        + 4 * ((NibX(i)[3] + NibY(i)[3] + NibZ(i)[3]) \div 2)
        + 8 * ((NibX(i)[4] + NibY(i)[4] + NibZ(i)[4]) \div 2)] \o <<>>

\* a tabulated function on three limbs
Limb3(t, a, b, c) ==
    t[256 * Nib(a, 0) + 16 * Nib(b, 0) + Nib(c, 0) + 1]
    + 16 * t[256 * Nib(a, 1) + 16 * Nib(b, 1) + Nib(c, 1) + 1]
    + 256 * t[256 * Nib(a, 2) + 16 * Nib(b, 2) + Nib(c, 2) + 1]
    + 4096 * t[256 * Nib(a, 3) + 16 * Nib(b, 3) + Nib(c, 3) + 1]

\* a tabulated function on three words
Word3(t, a, b, c) == <<Limb3(t, a[1], b[1], c[1]), Limb3(t, a[2], b[2], c[2])>>

\* 2^k for k in 0..16
Pow2Table ==
    <<1, 2, 4, 8, 16, 32, 64, 128, 256, 512, 1024, 2048, 4096, 8192, 16384,
      32768, 65536>>

\* the limbs of a word moved right by n < 16 bits; the low n bits of each
\* limb enter the other limb from the top
Swept(x, p, q) ==
    <<(x[1] \div p) + (x[2] % p) * q, (x[2] \div p) + (x[1] % p) * q>>

\* u32::rotate_right, for 0 < n < 32
RotR(x, n) ==
    IF n >= 16 THEN Swept(<<x[2], x[1]>>, Pow2Table[n - 15], Pow2Table[33 - n])
    ELSE Swept(x, Pow2Table[n + 1], Pow2Table[17 - n])

\* >>, for 0 < n < 16
ShR(x, n) ==
    <<(x[1] \div Pow2Table[n + 1]) + (x[2] % Pow2Table[n + 1]) * Pow2Table[17 - n],
      x[2] \div Pow2Table[n + 1]>>

\* wrapping_add
Add32(a, b) ==
    <<(a[1] + b[1]) % LimbBase,
      (a[2] + b[2] + (a[1] + b[1]) \div LimbBase) % LimbBase>>

BigSigma0(x) == Word3(Xor3Table, RotR(x, 2), RotR(x, 13), RotR(x, 22))

BigSigma1(x) == Word3(Xor3Table, RotR(x, 6), RotR(x, 11), RotR(x, 25))

SmallSigma0(x) == Word3(Xor3Table, RotR(x, 7), RotR(x, 18), ShR(x, 3))

SmallSigma1(x) == Word3(Xor3Table, RotR(x, 17), RotR(x, 19), ShR(x, 10))

\* the round constants and the initial hash value
Sha256K ==
    <<<<12184, 17034>>, <<17553, 28983>>, <<64463, 46528>>, <<56229, 59829>>,
      <<49755, 14678>>, <<4593, 23025>>, <<33444, 37439>>, <<24277, 43804>>,
      <<43672, 55303>>, <<23297, 4739>>, <<34238, 9265>>, <<32195, 21772>>,
      <<23924, 29374>>, <<45566, 32990>>, <<1703, 39900>>, <<61812, 49563>>,
      <<27073, 58523>>, <<18310, 61374>>, <<40390, 4033>>, <<41420, 9228>>,
      <<11375, 11753>>, <<33962, 19060>>, <<43484, 23728>>, <<35034, 30457>>,
      <<20818, 38974>>, <<50797, 43057>>, <<10184, 45059>>, <<32711, 48985>>,
      <<3059, 50912>>, <<37191, 54695>>, <<25425, 1738>>, <<10599, 5161>>,
      <<2693, 10167>>, <<8504, 11803>>, <<28156, 19756>>, <<3347, 21304>>,
      <<29524, 25866>>, <<2747, 30314>>, <<51502, 33218>>, <<11397, 37490>>,
      <<59553, 41663>>, <<26187, 43034>>, <<35696, 49739>>, <<20899, 51052>>,
      <<59417, 53650>>, <<1572, 54937>>, <<13701, 62478>>, <<41072, 4202>>,
      <<49430, 6564>>, <<27656, 7735>>, <<30540, 10056>>, <<48309, 13488>>,
      <<3251, 14620>>, <<43594, 20184>>, <<51791, 23452>>, <<28659, 26670>>,
      <<33518, 29839>>, <<25455, 30885>>, <<30740, 33992>>, <<520, 36039>>,
      <<65530, 37054>>, <<27883, 42064>>, <<41975, 48889>>, <<30962, 50801>>>>

Sha256H0 ==
    <<<<58983, 27145>>, <<44677, 47975>>, <<62322, 15470>>, <<62778, 42319>>,
      <<21119, 20750>>, <<26764, 39685>>, <<55723, 8067>>, <<52505, 23520>>>>

\* the message padded to whole blocks of 64 bytes: 0x80, zeros, and the
\* length in bits as 8 bytes big-endian
Sha256Pad(src) ==
    src \o <<128>> \o [i \in 1..((119 - (Len(src) % 64)) % 64) |-> 0]
    \o <<0, 0, 0, 0>>
    \o <<((8 * Len(src)) \div 16777216) % 256, ((8 * Len(src)) \div 65536) % 256,
         ((8 * Len(src)) \div 256) % 256, (8 * Len(src)) % 256>>

\* the sixteen big-endian words of block b (from 0) of the padded message
BlockWords(m, b) ==
    [t \in 1..16 |->
        <<256 * m[64 * b + 4 * t - 1] + m[64 * b + 4 * t],
          256 * m[64 * b + 4 * t - 3] + m[64 * b + 4 * t - 2]>>] \o <<>>

\* the 64 words of the message schedule from the 16 of the block
RECURSIVE Schedule(_)
Schedule(w) ==
    IF Len(w) = 64 THEN w
    ELSE Schedule(Append(w,
            Add32(Add32(SmallSigma1(w[Len(w) - 1]), w[Len(w) - 6]),
                  Add32(SmallSigma0(w[Len(w) - 14]), w[Len(w) - 15]))))

\* the working variables a..h after a round with T1 and T2
Rotate(s, t1, t2) ==
    <<Add32(t1, t2), s[1], s[2], s[3], Add32(s[4], t1), s[5], s[6], s[7]>>

Round(s, k, w) ==
    Rotate(s,
           Add32(Add32(Add32(s[8], BigSigma1(s[5])),
                       Add32(Word3(ChTable, s[5], s[6], s[7]), k)), w),
           Add32(BigSigma0(s[1]), Word3(MajTable, s[1], s[2], s[3])))

\* the working variables after the rounds from t on, with the schedule w
RECURSIVE Rounds(_, _, _)
Rounds(s, w, t) ==
    IF Len(s) = 8 /\ t <= 64 THEN Rounds(Round(s, Sha256K[t], w[t]), w, t + 1)
    ELSE s

\* the hash value after a block
AddWords(h, s) == [i \in 1..8 |-> Add32(h[i], s[i])] \o <<>>

Compress(h, w) == AddWords(h, Rounds(h, w, 1))

\* the hash value after the blocks from b (from 0) of the padded message m,
\* h being the hash value before them
RECURSIVE Blocks(_, _, _)
Blocks(h, m, b) ==
    IF Len(h) = 8 /\ 64 * b < Len(m)
    THEN Blocks(Compress(h, Schedule(BlockWords(m, b))), m, b + 1)
    ELSE h

\* the 32 bytes of the digest: the eight words big-endian
Sha256_bytes(h) ==
    [i \in 1..32 |->
        IF (i - 1) % 4 = 0 THEN h[(i + 3) \div 4][2] \div 256
        ELSE IF (i - 1) % 4 = 1 THEN h[(i + 3) \div 4][2] % 256
        ELSE IF (i - 1) % 4 = 2 THEN h[(i + 3) \div 4][1] \div 256
        ELSE h[(i + 3) \div 4][1] % 256] \o <<>>

Sha256_digest(src) == Sha256_bytes(Blocks(Sha256H0, Sha256Pad(src), 0))

\* Sha256::digest(Sha256::digest(src))[0..4]
CheckSumBytes(src) == SubSeq(Sha256_digest(Sha256_digest(src)), 1, 4)

\* the messages of the session: what the peer sends, and what the client
\* writes in connect, for a ping command and in answer to a ping
FutureAddrMsg ==
    [tag |-> "Addr",
     p |-> [addr_list |->
              <<[timestamp |-> Earlier,
                 addr |-> [services |-> DefaultServices, addr |-> Addr4]],
                [timestamp |-> Later,
                 addr |-> [services |-> DefaultServices, addr |-> Addr6]]>>]]

SessionMsgs ==
    GoodMsgs \o <<FutureAddrMsg, ConnectVersion(Addr6), ping(U64(7)),
                  pong(U64(42))>>

\* payloads that are not a message's: of the corrupted ping, and of the
\* envelopes given to from_blob as bytes
OtherPayloads ==
    {FlipLast(u64_to_blob(U64(42))), <<1, 2, 3, 4, 5>>, [i \in 1..16 |-> i], <<>>}

\* the payloads whose check sum the runs ask for again and again: the check
\* sum of each is computed once and looked up afterwards
CachedPayloads ==
    {PayloadBlob(SessionMsgs[i]) : i \in 1..Len(SessionMsgs)}
    \cup UNION {{PayloadBlob(in.v) : in \in CodecInputFamilies[f]} :
                  f \in {g \in 1..Len(CodecInputFamilies) :
                           \A in \in CodecInputFamilies[g] :
                              in.kind = "BitcoinMsg"}}
    \cup OtherPayloads

CheckSumCache == {<<p, CheckSumBytes(p)>> : p \in CachedPayloads}

\* the check sum found in the cache, or computed
Cached(hits, src) ==
    IF hits = {} THEN CheckSumBytes(src) ELSE (CHOOSE e \in hits : TRUE)[2]

get_check_sum(src) == Cached({e \in CheckSumCache : e[1] = src}, src)

(***************************************************************************)
(* The envelope's encoder and decoder                                      *)
(***************************************************************************)
\* a check sum of one SHA-256 only
check_sum_of_once(payload) ==
    IF LenAsU32(payload) # U32(0) THEN SubSeq(Sha256_digest(payload), 1, 4)
    ELSE <<93, 246, 224, 226>>

\* the check sum to_blob writes for a payload
check_sum_of(payload) ==
    IF LenAsU32(payload) # U32(0) THEN get_check_sum(payload)
    ELSE <<93, 246, 224, 226>>

\* magic, command, size, check sum and payload
Framed(command, payload) ==
    Magic \o command \o to_le_bytes(LenAsU32(payload))
    \o check_sum_of(payload) \o payload

BitcoinMsg_to_blob(m) ==
    Framed(resize(CommandOf(m.tag), 12), PayloadBlob(m))

\* command.retain(|&x| x != 0)
RetainNonZero(command) == SelectSeq(command, LAMBDA x : x # 0)

\* header.size as usize, when the scanner holds that many more bytes
SizeWithin(size, max) == size[2] = 0 /\ size[1] <= max

\* the payload of the variant, read where the header ended
Payload_from_blob(tag, bytes, it) ==
    CASE tag = "Version" -> Version_from_blob(bytes, it)
      [] tag = "VerAck" -> Ok(<<>>, it)
      [] tag = "SendHeaders" -> Ok(<<>>, it)
      [] tag = "SendCmpct" -> SendCmpct_from_blob(bytes, it)
      [] tag = "Ping" -> u64_from_blob(bytes, it)
      [] tag = "Pong" -> u64_from_blob(bytes, it)
      [] tag = "FeeFilter" -> FeeFilter_from_blob(bytes, it)
      [] tag = "Inv" -> Inv_from_blob(bytes, it)
      [] tag = "GetAddr" -> Ok(<<>>, it)
      [] tag = "Addr" -> Addr_from_blob(bytes, it)

\* BitcoinMsg { payload } of the variant that a supported command names
Variant(command, bytes, it) ==
    IF ~(\E c \in Commands : c[2] = command) THEN Panic
    ELSE Map(Payload_from_blob((CHOOSE c \in Commands : c[2] = command)[1],
                               bytes, it),
             LAMBDA p : [tag |-> (CHOOSE c \in Commands : c[2] = command)[1],
                         p |-> p])

\* from_blob once the header is read.  std::str::from_utf8(&command)
\* .unwrap(): a byte above 127 is either no UTF-8 or part of a name that is
\* none of the ten
Checked(header, bytes, it) ==
    IF header.magic # Magic THEN Panic
    ELSE IF \E i \in 1..Len(header.command) : header.command[i] > 127
    THEN Panic
    ELSE IF ~SizeWithin(header.size, Len(bytes) - it) THEN Panic
    ELSE IF get_check_sum(peek(bytes, it, header.size[1]).v) # header.check_sum
    THEN Panic
    ELSE Variant(RetainNonZero(header.command), bytes, it)

BitcoinMsg_from_blob(bytes, it) ==
    AndThen(BitcoinHeader_from_blob(bytes, it),
            LAMBDA header : Checked(header.v, bytes, header.it))

(***************************************************************************)
(* State                                                                   *)
(***************************************************************************)
VARIABLES
    pc,         \* where the worker thread stands in bitcoin_handling
    stream,     \* Client.stream: NoStream or the endpoint [id, read_timeout]
    msg,        \* the result of the worker's latest client.read_msg()
    cmdq,       \* the command channel (tx -> cmd_rx)
    logq,       \* every record sent on the log channel, in order
    sock,       \* every TCP event of the worker, in order
    caddr,      \* the addr argument of the running Client::connect
    nconn,      \* TCP connections opened so far
    peer,       \* the peer's end of the current connection
    inbox,      \* bytes the peer sent that the worker has not read yet
    ctl,        \* the controller (main) thread: "running" or "panicked"
    issued,     \* commands the controller has sent
    delivered,  \* envelopes the peer has sent
    cstage,     \* codec run: "input", "encoded", "decoded", "reencoded"
    cin,        \* codec run: the typed value [kind, ty, v] to encode
    cblob,      \* codec run: to_blob of the input
    cout,       \* codec run: from_blob of cblob from cursor 0 (Ok or Panic)
    cblob2,     \* codec run: to_blob of the decoded value
    scanner,    \* scanner run: the Scanner [bytes, it]
    taken       \* scanner run: what the latest take or peek returned

sessionVars ==
    <<pc, stream, msg, cmdq, logq, sock, caddr, nconn, peer, inbox, ctl,
      issued, delivered>>

codecVars == <<cstage, cin, cblob, cout, cblob2, scanner, taken>>

vars == <<sessionVars, codecVars>>

(***************************************************************************)
(* Codec round trips: a value of every codec is encoded, decoded from a    *)
(* fresh Scanner, and the decoded value is encoded again                   *)
(***************************************************************************)
\* T::to_blob / T::from_blob by type: kind is "prim", "array", "Vec",
\* "SocketAddr", "Services" or "BitcoinMsg", ty the (element) type
to_blob(kind, ty, v) ==
    CASE kind = "BitcoinMsg" -> BitcoinMsg_to_blob(v)
      [] kind = "SocketAddr" -> SocketAddr_to_blob(v)
      [] kind = "Services" -> Services_to_blob(v)
      [] kind = "array" -> array_to_blob(ty, v)
      [] kind = "Vec" -> Vec_to_blob(ty, v)
      [] kind = "prim" -> T_to_blob(ty, v)

\* n is the N of [T; N]
from_blob(kind, ty, n, bytes, it) ==
    CASE kind = "BitcoinMsg" -> BitcoinMsg_from_blob(bytes, it)
      [] kind = "SocketAddr" -> SocketAddr_from_blob(bytes, it)
      [] kind = "Services" -> Services_from_blob(bytes, it)
      [] kind = "array" -> array_from_blob(ty, n, bytes, it)
      [] kind = "Vec" -> Vec_from_blob(ty, bytes, it)
      [] kind = "prim" -> T_from_blob(ty, bytes, it)

(***************************************************************************)
(* The session: Client and the values that travel on its channels          *)
(***************************************************************************)
\* commands the controller may send before it stops
MaxCmds == 2

\* envelopes the peer may send before it falls silent
MaxPeerMsgs == 3

\* log records after which a dead connection is no longer read again
MaxLog == 3

\* a stream that stays behind where there should be none
NoStream_held == [open |-> TRUE, id |-> 0, read_timeout |-> FALSE]

\* Option<TcpStream>: None, and Some(stream) with the stream's read timeout
NoStream == [open |-> FALSE, id |-> 0, read_timeout |-> FALSE]

SomeStream(id, timeout) == [open |-> TRUE, id |-> id, read_timeout |-> timeout]

\* LogMsg::info / warn / err; the text is its format string's name and
\* arg the numbers formatted into it
LogMsg_info(text, arg) == [kind |-> "Info", text |-> text, arg |-> arg]

LogMsg_warn(text, arg) == [kind |-> "Warn", text |-> text, arg |-> arg]

LogMsg_err(text, arg) == [kind |-> "Error", text |-> text, arg |-> arg]

\* ClientCommand
SendBtcMsg(m) == [cmd |-> "SendBtcMsg", arg |-> m]

Connect(addr) == [cmd |-> "Connect", arg |-> addr]

Disconnect == [cmd |-> "Disconnect", arg |-> <<>>]

\* commands main sends: connect <addr>, disconnect, ping <u64>
ControllerCmds == <<Connect(Addr6), Disconnect, SendBtcMsg(ping(U64(7)))>>

\* a TCP event of the worker: bytes written to, or read from, connection id
Written(id, bytes) == [op |-> "write", id |-> id, bytes |-> bytes]

ReadEv(id, bytes) == [op |-> "read", id |-> id, bytes |-> bytes]

\* results of client.read_msg(); Blocked is a call that has not returned
NoMsg == [res |-> "None", kind |-> "", consumed |-> 0, m |-> <<>>]

Blocked == [res |-> "Blocked", kind |-> "", consumed |-> 0, m |-> <<>>]

NotConnected == [res |-> "NotConnected", kind |-> "", consumed |-> 0, m |-> <<>>]

IoErr(kind, consumed) == [res |-> "IoErr", kind |-> kind, consumed |-> consumed, m |-> <<>>]

\* a read that still waits for bytes after the first `had`: the peer has
\* closed ("eof"), reset the connection, or is silent ("open") and the read
\* times out if a timeout is set
Starved(p, timeout, had) ==
    CASE p = "eof" -> IoErr("UnexpectedEof", had)
      [] p = "reset" -> IoErr("ConnectionReset", had)
      [] p = "open" /\ timeout -> IoErr("WouldBlock", had)
      [] OTHER -> Blocked

\* Ok(msg) of read_msg, or the panic of BitcoinMsg::from_blob, on the n
\* bytes read
Parsed(m, n) ==
    IF m.ok
    THEN [res |-> "Ok", kind |-> "", consumed |-> n, m |-> m.v]
    ELSE [res |-> "Panic", kind |-> "", consumed |-> n, m |-> <<>>]

\* a read that removes from the stream what the decoder went through
read_exact_msg_cursor(header, in, p, timeout) ==
    IF SizeWithin(header.size, Len(in) - 24)
    THEN Parsed(BitcoinMsg_from_blob(SubSeq(in, 1, 24 + header.size[1]), 0),
                IF BitcoinMsg_from_blob(SubSeq(in, 1, 24 + header.size[1]), 0).ok
                THEN BitcoinMsg_from_blob(SubSeq(in, 1, 24 + header.size[1]), 0).it
                ELSE 24 + header.size[1])
    ELSE Starved(p, timeout, Len(in))

\* stream.read_exact(&mut msg)? for msg of 24 + header.size bytes, and
\* BitcoinMsg::from_blob of a fresh Scanner on them
read_exact_msg(header, in, p, timeout) ==
    IF SizeWithin(header.size, Len(in) - 24)
    THEN Parsed(BitcoinMsg_from_blob(SubSeq(in, 1, 24 + header.size[1]), 0),
                24 + header.size[1])
    ELSE Starved(p, timeout, Len(in))

\* Client::read_msg on Some(stream): in holds the bytes received and unread,
\* p is the peer's end.  stream.peek(&mut header)? waits for a first byte,
\* returns Ok(0) at EOF, and leaves the bytes it did not get at zero
read_msg(in, p, timeout) ==
    IF Len(in) = 0 /\ p # "eof" THEN Starved(p, timeout, 0)
    ELSE read_exact_msg(
             BitcoinHeader_from_blob(
                 [i \in 1..24 |-> IF i <= Len(in) THEN in[i] ELSE 0], 0).v,
             in, p, timeout)

\* the rest of a sequence after its first n elements
Drop(s, n) == SubSeq(s, n + 1, Len(s))

Reverse(s) == [i \in 1..Len(s) |-> s[Len(s) + 1 - i]]

(***************************************************************************)
(* The worker thread: bitcoin_handling and the Client methods it calls     *)
(***************************************************************************)
\* the worker's thread ends (bitcoin_handling returns Err, or a panic
\* unwinds it): client and rx are dropped, which closes the socket
ThreadEnds(how) ==
    /\ pc' = how
    /\ stream' = NoStream
    /\ peer' = "none"
    /\ inbox' = <<>>

WorkerDead == pc \in {"returned", "panicked"}

\* the record send_msg_cmd logs before it sends
send_msg_cmd_log(btc_msg) ==
    CASE btc_msg.tag = "Version" -> LogMsg_err("Already connected!", <<>>)
      [] btc_msg.tag = "Ping" -> LogMsg_info("Sending ping with value", btc_msg.p)
      [] btc_msg.tag = "GetAddr" -> LogMsg_info("Sending getaddr command", <<>>)
      [] OTHER -> LogMsg_warn("Sending", <<>>)

NotSentRecords_silent(text) == <<>>

\* what bitcoin_handling logs for the Err(NotConnected) of send_msg, whose
\* msg is Some(text)
NotSentRecords(text) == <<LogMsg_err(text, <<>>)>>

\* handle_cmds(SendBtcMsg(btc_msg)): send_msg_cmd, then send_msg
HandleSendBtcMsg ==
    /\ pc = "drain" /\ cmdq # <<>> /\ Head(cmdq).cmd = "SendBtcMsg"
    /\ LET btc_msg == Head(cmdq).arg IN
       /\ cmdq' = Tail(cmdq)
       /\ IF ~stream.open
          THEN /\ logq' = Append(logq, send_msg_cmd_log(btc_msg))
                          \o NotSentRecords("Could not send message, client not connected")
               /\ UNCHANGED <<pc, stream, sock, peer, inbox>>
          ELSE IF peer = "reset"
          THEN \* write_all fails: an IoErr, which bitcoin_handling returns
               /\ logq' = Append(logq, send_msg_cmd_log(btc_msg))
               /\ ThreadEnds("returned")
               /\ UNCHANGED sock
          ELSE /\ logq' = Append(logq, send_msg_cmd_log(btc_msg))
               /\ sock' = Append(sock, Written(stream.id, BitcoinMsg_to_blob(btc_msg)))
               /\ UNCHANGED <<pc, stream, peer, inbox>>
    /\ UNCHANGED <<msg, caddr, nconn, ctl, issued, delivered, codecVars>>

\* handle_cmds(Connect(addr)), first statement of Client::connect:
\* self.stream = TcpStream::connect(addr).ok(), which drops the old stream
ConnectOpen ==
    /\ pc = "drain" /\ cmdq # <<>> /\ Head(cmdq).cmd = "Connect"
    /\ cmdq' = Tail(cmdq)
    /\ caddr' = Head(cmdq).arg
    /\ pc' = "hs_send_version"
    /\ inbox' = <<>>
    /\ \E connected \in BOOLEAN :
         IF connected
         THEN /\ nconn' = nconn + 1
              /\ stream' = SomeStream(nconn + 1, FALSE)
              /\ peer' = "open"
         ELSE /\ stream' = NoStream
              /\ peer' = "none"
              /\ UNCHANGED nconn
    /\ UNCHANGED <<msg, logq, sock, ctl, issued, delivered, codecVars>>

\* Client::connect: self.send_msg(version)?
HsSendVersion ==
    /\ pc = "hs_send_version"
    /\ IF ~stream.open
       THEN \* Err(NotConnected) with a msg: bitcoin_handling logs it
            /\ logq' = logq \o NotSentRecords("Could not send message, client not connected")
            /\ pc' = "drain"
            /\ UNCHANGED <<stream, sock, peer, inbox>>
       ELSE IF peer = "reset"
       THEN ThreadEnds("returned") /\ UNCHANGED <<logq, sock>>
       ELSE /\ sock' = Append(sock, Written(stream.id, BitcoinMsg_to_blob(ConnectVersion(caddr))))
            /\ pc' = "hs_read_version"
            /\ UNCHANGED <<logq, stream, peer, inbox>>
    /\ UNCHANGED <<msg, cmdq, caddr, nconn, ctl, issued, delivered, codecVars>>

HsExpected_swapped(at) == IF at = "hs_read_version" THEN "VerAck" ELSE "Version"

\* the payload each read of the handshake requires
HsExpected(at) == IF at = "hs_read_version" THEN "Version" ELSE "VerAck"

\* Client::connect: the two `if let ... = self.read_msg()?.payload {} else
\* { return Err(ProtocolErr) }`.  ProtocolErr carries no msg, so nothing is
\* logged for it, and self.stream stays as it is
HsRead ==
    /\ pc \in {"hs_read_version", "hs_read_verack"}
    /\ \E r \in {read_msg(inbox, peer, stream.read_timeout)} :
       /\ r.res # "Blocked"
       /\ sock' = IF r.res \in {"Ok", "Panic"}
                  THEN Append(sock, ReadEv(stream.id, SubSeq(inbox, 1, r.consumed)))
                  ELSE sock
       /\ CASE r.res = "IoErr" -> ThreadEnds("returned")
            [] r.res = "Panic" -> ThreadEnds("panicked")
            [] r.res = "Ok" ->
                 /\ inbox' = Drop(inbox, r.consumed)
                 /\ pc' = IF r.m.tag # HsExpected(pc) THEN "drain"
                          ELSE IF pc = "hs_read_version" THEN "hs_read_verack"
                          ELSE "hs_send_verack"
                 /\ UNCHANGED <<stream, peer>>
    /\ UNCHANGED <<msg, cmdq, logq, caddr, nconn, ctl, issued, delivered, codecVars>>

\* Client::connect: self.send_msg(BitcoinMsg::verack())?
HsSendVerack ==
    /\ pc = "hs_send_verack"
    /\ IF peer = "reset"
       THEN ThreadEnds("returned") /\ UNCHANGED sock
       ELSE /\ sock' = Append(sock, Written(stream.id, BitcoinMsg_to_blob(verack)))
            /\ pc' = "hs_finish"
            /\ UNCHANGED <<stream, peer, inbox>>
    /\ UNCHANGED <<msg, cmdq, logq, caddr, nconn, ctl, issued, delivered, codecVars>>

\* Client::connect: set_read_timeout(100 ms) and the "Connected" record;
\* stream.peer_addr().unwrap() panics on a connection the peer has reset
HsFinish ==
    /\ pc = "hs_finish"
    /\ IF peer = "reset"
       THEN ThreadEnds("panicked") /\ UNCHANGED logq
       ELSE /\ stream' = SomeStream(stream.id, TRUE)
            /\ logq' = Append(logq, LogMsg_info("Connected to address", <<>>))
            /\ pc' = "drain"
            /\ UNCHANGED <<peer, inbox>>
    /\ UNCHANGED <<msg, cmdq, sock, caddr, nconn, ctl, issued, delivered, codecVars>>

\* a disconnect that reports an error when no stream is held
disconnect_log_err(held) ==
    IF held THEN LogMsg_info("Disconnecting from", <<>>)
    ELSE LogMsg_err("Already Disconnected", <<>>)

\* the record Client::disconnect logs, with or without a stream held
disconnect_log(held) ==
    IF held THEN LogMsg_info("Disconnecting from", <<>>)
    ELSE LogMsg_info("Already Disconnected", <<>>)

\* handle_cmds(Disconnect): Client::disconnect.  `addr?` returns the IoErr
\* of peer_addr() on a connection the peer has reset
HandleDisconnect ==
    /\ pc = "drain" /\ cmdq # <<>> /\ Head(cmdq).cmd = "Disconnect"
    /\ cmdq' = Tail(cmdq)
    /\ stream' = NoStream
    /\ peer' = "none"
    /\ inbox' = <<>>
    /\ IF ~stream.open
       THEN /\ logq' = Append(logq, disconnect_log(FALSE))
            /\ UNCHANGED pc
       ELSE IF peer = "reset"
       THEN pc' = "returned" /\ UNCHANGED logq
       ELSE /\ logq' = Append(logq, disconnect_log(TRUE))
            /\ UNCHANGED pc
    /\ UNCHANGED <<msg, sock, caddr, nconn, ctl, issued, delivered, codecVars>>

\* a loop that goes on to read_msg whatever the channel holds
DrainDone_early ==
    /\ pc = "drain"
    /\ pc' = "read"
    /\ UNCHANGED <<stream, msg, cmdq, logq, sock, caddr, nconn, peer, inbox,
                   ctl, issued, delivered, codecVars>>

\* rx.try_iter() finds the channel empty: the for loop ends
DrainDone ==
    /\ pc = "drain" /\ cmdq = <<>>
    /\ pc' = "read"
    /\ UNCHANGED <<stream, msg, cmdq, logq, sock, caddr, nconn, peer, inbox,
                   ctl, issued, delivered, codecVars>>

\* let msg = client.read_msg() and the two `if let Err(..) = msg` that
\* follow it: NotConnected and a timeout continue silently, any other
\* IoErr is logged and the loop continues with the same stream; a panic in
\* from_blob unwinds the thread
ReadMsg ==
    /\ pc = "read"
    /\ IF ~stream.open
       THEN /\ msg' = NotConnected
            /\ pc' = "drain"
            /\ UNCHANGED <<stream, logq, sock, peer, inbox>>
       ELSE \E r \in {read_msg(inbox, peer, stream.read_timeout)} :
            /\ r.res # "Blocked"
            /\ msg' = [r EXCEPT !.consumed = 0]
            /\ sock' = IF r.res \in {"Ok", "Panic"}
                       THEN Append(sock, ReadEv(stream.id, SubSeq(inbox, 1, r.consumed)))
                       ELSE sock
            /\ CASE r.res = "Panic" -> ThreadEnds("panicked") /\ UNCHANGED logq
                 [] r.res = "Ok" ->
                      /\ inbox' = Drop(inbox, r.consumed)
                      /\ pc' = "dispatch"
                      /\ UNCHANGED <<stream, logq, peer>>
                 [] r.res = "IoErr" /\ r.kind = "WouldBlock" ->
                      /\ inbox' = Drop(inbox, r.consumed)
                      /\ pc' = "drain"
                      /\ UNCHANGED <<stream, logq, peer>>
                 [] r.res = "IoErr" /\ r.kind # "WouldBlock" ->
                      /\ Len(logq) < MaxLog
                      /\ logq' = Append(logq, LogMsg_err("Failed to read Message", <<>>))
                      /\ inbox' = Drop(inbox, r.consumed)
                      /\ pc' = "drain"
                      /\ UNCHANGED <<stream, peer>>
    /\ UNCHANGED <<cmdq, caddr, nconn, ctl, issued, delivered, codecVars>>

PingReply_same(x) == ping(x)

\* BitcoinPayload::Ping(x) => client.send_msg(BitcoinMsg::pong(x))?
PingReply(x) == pong(x)

\* the records of the Inv arm: the count, then kind and reversed hash of
\* every element
InvRecords(p) ==
    <<LogMsg_info("Got new objects", <<Len(p.inventory)>>)>>
    \o [i \in 1..Len(p.inventory) |->
          LogMsg_info(p.inventory[i].kind, Reverse(p.inventory[i].hash))]

\* SystemTime::now().duration_since(UNIX_EPOCH + timestamp) is Err, and its
\* unwrap panics, when the timestamp is later than now
InFuture(timestamp, now) == LimbsLt(now.secs, Widen(timestamp, 4))

\* how many elements of the Addr arm's loop are logged before it ends
AddrLogged(addr_list, now) ==
    IF \E i \in 1..Len(addr_list) : InFuture(addr_list[i].timestamp, now)
    THEN (CHOOSE i \in 1..Len(addr_list) :
            /\ InFuture(addr_list[i].timestamp, now)
            /\ \A j \in 1..(i - 1) : ~InFuture(addr_list[j].timestamp, now)) - 1
    ELSE Len(addr_list)

AddrRecords(p, now) ==
    <<LogMsg_info("Found nodes", <<Len(p.addr_list)>>)>>
    \o [i \in 1..AddrLogged(p.addr_list, now) |->
          LogMsg_info("addr", p.addr_list[i].timestamp)]

\* a match that drops the stream whatever the message is
Dispatch_drop ==
    /\ pc = "dispatch"
    /\ pc' = "drain"
    /\ stream' = NoStream
    /\ UNCHANGED <<msg, cmdq, logq, sock, caddr, nconn, peer, inbox, ctl,
                   issued, delivered, codecVars>>

\* match msg.payload { ... } of bitcoin_handling
Dispatch ==
    /\ pc = "dispatch"
    /\ \E m \in {msg.m} :
       CASE m.tag = "Inv" ->
              /\ logq' = logq \o InvRecords(m.p)
              /\ pc' = "drain"
              /\ UNCHANGED <<stream, sock, peer, inbox>>
         [] m.tag = "Ping" ->
              IF peer = "reset"
              THEN ThreadEnds("returned") /\ UNCHANGED <<logq, sock>>
              ELSE /\ sock' = Append(sock, Written(stream.id, BitcoinMsg_to_blob(PingReply(m.p))))
                   /\ pc' = "drain"
                   /\ UNCHANGED <<stream, logq, peer, inbox>>
         [] m.tag = "Pong" ->
              /\ logq' = Append(logq, LogMsg_info("Received pong with value", m.p))
              /\ pc' = "drain"
              /\ UNCHANGED <<stream, sock, peer, inbox>>
         [] m.tag = "Addr" ->
              /\ logq' = logq \o AddrRecords(m.p, Now)
              /\ IF AddrLogged(m.p.addr_list, Now) < Len(m.p.addr_list)
                 THEN ThreadEnds("panicked")
                 ELSE pc' = "drain" /\ UNCHANGED <<stream, peer, inbox>>
              /\ UNCHANGED sock
         [] OTHER ->
              /\ logq' = Append(logq, LogMsg_warn("Could not handle message", <<>>))
              /\ pc' = "drain"
              /\ UNCHANGED <<stream, sock, peer, inbox>>
    /\ UNCHANGED <<msg, cmdq, caddr, nconn, ctl, issued, delivered, codecVars>>

(***************************************************************************)
(* The controller (main) and the peer                                      *)
(***************************************************************************)
\* a channel that hands over the newest command first
channel_send_front(q, c) == <<c>> \o q

\* mpsc::Sender::send on the channel's content: the channel is a FIFO
channel_send(q, c) == Append(q, c)

\* tx.send(cmd).unwrap(), for a controller that sends max commands: the
\* send fails, and the unwrap panics, once the worker's thread has ended
\* and dropped cmd_rx
EnqueueWithin(c, max) ==
    /\ ctl = "running" /\ issued < max
    /\ IF WorkerDead
       THEN ctl' = "panicked" /\ UNCHANGED <<cmdq, issued>>
       ELSE /\ cmdq' = channel_send(cmdq, c)
            /\ issued' = issued + 1
            /\ UNCHANGED ctl
    /\ UNCHANGED <<pc, stream, msg, logq, sock, caddr, nconn, peer, inbox,
                   delivered, codecVars>>

Enqueue(c) == EnqueueWithin(c, MaxCmds)

\* an envelope with a well-formed header around any command and payload
Envelope(command, payload) == Framed(resize(command, 12), payload)

GoodBlobs == {BitcoinMsg_to_blob(GoodMsgs[i]) : i \in 1..Len(GoodMsgs)}

\* an addr whose second element's timestamp is later than the clock
FutureAddrBlob == BitcoinMsg_to_blob(FutureAddrMsg)

\* a ping whose payload has one bit flipped after the checksum was taken
BadChecksumBlob == FlipLast(BitcoinMsg_to_blob(ping(U64(42))))

\* the command "foo"
UnknownCommandBlob == Envelope(<<102, 111, 111>>, <<>>)

\* a ping without its nonce: u64::from_blob runs past the scanner's end
OverrunBlob == Envelope(CommandOf("Ping"), <<>>)

BadBlobs == {BadChecksumBlob, UnknownCommandBlob, OverrunBlob}

PeerBlobs == GoodBlobs \cup {FutureAddrBlob} \cup BadBlobs

\* the peer sends an envelope, once the worker has read the one before
PeerSend(blob) ==
    /\ stream.open /\ peer = "open" /\ delivered < MaxPeerMsgs
    /\ inbox = <<>>
    /\ inbox' = inbox \o blob
    /\ delivered' = delivered + 1
    /\ UNCHANGED <<pc, stream, msg, cmdq, logq, sock, caddr, nconn, peer, ctl,
                   issued, codecVars>>

\* the peer closes its end: the worker's reads reach EOF after the bytes
\* already received
PeerClose ==
    /\ stream.open /\ peer = "open"
    /\ peer' = "eof"
    /\ UNCHANGED <<pc, stream, msg, cmdq, logq, sock, caddr, nconn, inbox, ctl,
                   issued, delivered, codecVars>>

\* the peer resets the connection: unread bytes are gone, reads and writes
\* fail
PeerReset ==
    /\ stream.open /\ peer = "open"
    /\ peer' = "reset"
    /\ inbox' = <<>>
    /\ UNCHANGED <<pc, stream, msg, cmdq, logq, sock, caddr, nconn, ctl, issued,
                   delivered, codecVars>>

(***************************************************************************)
(* Specifications                                                          *)
(***************************************************************************)
\* main: the worker is spawned with Client { stream: None, .. }
SessionInit ==
    /\ pc = "drain"
    /\ stream = NoStream
    /\ msg = NoMsg
    /\ cmdq = <<>>
    /\ logq = <<>>
    /\ sock = <<>>
    /\ caddr = Addr4
    /\ nconn = 0
    /\ peer = "none"
    /\ inbox = <<>>
    /\ ctl = "running"
    /\ issued = 0
    /\ delivered = 0

\* no take or peek has been called yet
NotCalled == [ok |-> FALSE, called |-> FALSE]

ScannerIdle ==
    /\ scanner = Scanner_new(<<>>)
    /\ taken = NotCalled

CodecIdle ==
    /\ cstage = "idle"
    /\ cin = [kind |-> "prim", ty |-> "u8", v |-> 0]
    /\ cblob = <<>>
    /\ cout = Panic
    /\ cblob2 = <<>>
    /\ ScannerIdle

Init == SessionInit /\ CodecIdle

Worker ==
    \/ HandleSendBtcMsg
    \/ ConnectOpen
    \/ HsSendVersion
    \/ HsRead
    \/ HsSendVerack
    \/ HsFinish
    \/ HandleDisconnect
    \/ DrainDone
    \/ ReadMsg
    \/ Dispatch

Controller == \E i \in 1..Len(ControllerCmds) : Enqueue(ControllerCmds[i])

Peer == (\E blob \in PeerBlobs : PeerSend(blob)) \/ PeerClose \/ PeerReset

Next == Worker \/ Controller \/ Peer

Spec == Init /\ [][Next]_vars

\* the worker's thread runs whenever it has a step to take: a call that has
\* returned is followed by the next statement.  The user and the peer are
\* free to do nothing
FairSpec == Spec /\ WF_vars(Worker)

\* the session after `connect <addr>` and a handshake with the peer: the
\* version and verack of both sides have crossed, the read timeout is set
Connected ==
    /\ pc = "drain"
    /\ stream = SomeStream(1, TRUE)
    /\ msg = NoMsg
    /\ cmdq = <<>>
    /\ logq = <<LogMsg_info("Connected to address", <<>>)>>
    /\ sock = <<Written(1, BitcoinMsg_to_blob(ConnectVersion(Addr6))),
                ReadEv(1, BitcoinMsg_to_blob(PeerVersion)),
                ReadEv(1, BitcoinMsg_to_blob(verack)),
                Written(1, BitcoinMsg_to_blob(verack))>>
    /\ caddr = Addr6
    /\ nconn = 1
    /\ peer = "open"
    /\ inbox = <<>>
    /\ ctl = "running"
    /\ issued = 1
    /\ delivered = 2

\* commands that send a message, typed after the connect
MaxSends == 3

\* `ping 7` and `getaddr` in turn
SendOrder ==
    [i \in 1..MaxSends |->
        IF i % 2 = 1 THEN SendBtcMsg(ping(U64(7))) ELSE SendBtcMsg(getaddr)]

\* the connected session, whose controller types the commands of SendOrder
SendInit == Connected /\ CodecIdle

SendWorker == HandleSendBtcMsg \/ DrainDone \/ ReadMsg \/ Dispatch

SendController ==
    /\ issued <= MaxSends
    /\ EnqueueWithin(SendOrder[issued], 1 + MaxSends)

\* the messages of the default arm of bitcoin_handling's match that the
\* handshake does not use
UnhandledMsgs ==
    <<[tag |-> "SendHeaders", p |-> <<>>],
      [tag |-> "SendCmpct", p |-> [flag |-> TRUE, integer |-> U64(2)]],
      [tag |-> "FeeFilter", p |-> [feerate |-> U64(1000)]],
      getaddr>>

UnhandledBlobs == {BitcoinMsg_to_blob(UnhandledMsgs[i]) : i \in 1..Len(UnhandledMsgs)}

\* a verack that carries 5 payload bytes no decoder reads, and the envelope
\* of a pong right behind it
PaddedVerackBlob == Envelope(CommandOf("VerAck"), <<1, 2, 3, 4, 5>>)

BackToBackBlob == PaddedVerackBlob \o BitcoinMsg_to_blob(pong(U64(7)))

\* the peer of a session in steady state
SendPeer ==
    \/ \E blob \in PeerBlobs \cup UnhandledBlobs \cup {BackToBackBlob} :
          PeerSend(blob)
    \/ PeerClose
    \/ PeerReset

SendNext == SendWorker \/ SendController \/ SendPeer

SendSpec == SendInit /\ [][SendNext]_vars

\* a header whose command field is "pi", NUL, "ng" and NULs, before the
\* payload of ping(42)
NulInsideCommandBlob ==
    Envelope(<<112, 105, 0, 110, 103>>, u64_to_blob(U64(42)))

\* envelopes as bytes, for BitcoinMsg::from_blob on a fresh Scanner: two that
\* to_blob produced (one followed by more bytes), a verack with a payload of
\* 5 bytes, a ping with a payload of 16 bytes, a ping whose header announces
\* no payload and which 8 bytes follow, all with the check sum of the
\* announced payload, envelopes that from_blob panics on, and one with a NUL
\* inside the command's name
RawEnvelopes ==
    {BitcoinMsg_to_blob(verack),
     BitcoinMsg_to_blob(ping(U64(42))),
     BitcoinMsg_to_blob(ping(U64(42))) \o <<9, 9>>,
     Envelope(CommandOf("VerAck"), <<1, 2, 3, 4, 5>>),
     Envelope(CommandOf("Ping"), [i \in 1..16 |-> i]),
     Envelope(CommandOf("Ping"), <<>>) \o [i \in 1..8 |-> i],
     BadChecksumBlob, UnknownCommandBlob, OverrunBlob,
     [BitcoinMsg_to_blob(verack) EXCEPT ![1] = 250],
     NulInsideCommandBlob}

\* counts as bytes, for usize::from_blob on a fresh Scanner: 0x10 with the
\* tags 0xfd, 0xfe and 0xff, and 0xfc, 0xffff and 0xffffffff with a tag wider
\* than they need
RawCounts ==
    {<<253, 16, 0>>, <<254, 16, 0, 0, 0>>, <<255, 16, 0, 0, 0, 0, 0, 0, 0>>,
     <<253, 252, 0>>, <<254, 255, 255, 0, 0>>,
     <<255, 255, 255, 255, 255, 0, 0, 0, 0>>}

\* bytes given to a decoder on a fresh Scanner
RawInputs ==
    Typed("raw", "BitcoinMsg", RawEnvelopes) \cup Typed("raw", "usize", RawCounts)

\* the type a codec run decodes
DecodedKind(in) ==
    IF in.kind # "raw" THEN in.kind
    ELSE IF in.ty = "BitcoinMsg" THEN "BitcoinMsg" ELSE "prim"

\* the codec runs: encode (or take the bytes given), decode, encode again
CodecInit ==
    /\ SessionInit
    /\ cstage = "input"
    /\ \/ \E f \in 1..Len(CodecInputFamilies) : cin \in CodecInputFamilies[f]
       \/ cin \in RawInputs
    /\ cblob = <<>>
    /\ cout = Panic
    /\ cblob2 = <<>>
    /\ ScannerIdle

Encode ==
    /\ cstage = "input" /\ cin.kind # "raw"
    /\ cblob' = to_blob(cin.kind, cin.ty, cin.v)
    /\ cstage' = "encoded"
    /\ UNCHANGED <<cin, cout, cblob2, scanner, taken, sessionVars>>

\* Scanner::new(bytes)
Load ==
    /\ cstage = "input" /\ cin.kind = "raw"
    /\ cblob' = cin.v
    /\ cstage' = "encoded"
    /\ UNCHANGED <<cin, cout, cblob2, scanner, taken, sessionVars>>

Decode ==
    /\ cstage = "encoded"
    /\ cout' = from_blob(DecodedKind(cin), cin.ty,
                         IF cin.kind = "array" THEN Len(cin.v) ELSE 0, cblob, 0)
    /\ cstage' = "decoded"
    /\ UNCHANGED <<cin, cblob, cblob2, scanner, taken, sessionVars>>

Reencode ==
    /\ cstage = "decoded" /\ cout.ok
    /\ cblob2' = to_blob(DecodedKind(cin), cin.ty, cout.v)
    /\ cstage' = "reencoded"
    /\ UNCHANGED <<cin, cblob, cout, scanner, taken, sessionVars>>

CodecNext == Encode \/ Load \/ Decode \/ Reencode

CodecSpec == CodecInit /\ [][CodecNext]_vars

\* the scanner runs: a Scanner over up to MaxScan bytes, every byte different,
\* on which take and peek are called with amounts up to one more than that
MaxScan == 5

ScannerBytes == {[i \in 1..k |-> 10 + i] : k \in 0..MaxScan}

Amounts == 0..(MaxScan + 1)

ScannerInit ==
    /\ SessionInit
    /\ cstage = "idle"
    /\ cin = [kind |-> "prim", ty |-> "u8", v |-> 0]
    /\ cblob = <<>>
    /\ cout = Panic
    /\ cblob2 = <<>>
    /\ \E b \in ScannerBytes : scanner = Scanner_new(b)
    /\ taken = NotCalled

\* scanner.take(amnt): the slice is made before the cursor moves
Take(amnt) ==
    /\ taken' = take(scanner.bytes, scanner.it, amnt)
    /\ scanner' = IF taken'.ok THEN [scanner EXCEPT !.it = taken'.it] ELSE scanner
    /\ UNCHANGED <<cstage, cin, cblob, cout, cblob2, sessionVars>>

\* scanner.peek(amnt)
Peek(amnt) ==
    /\ taken' = peek(scanner.bytes, scanner.it, amnt)
    /\ scanner' = IF taken'.ok THEN [scanner EXCEPT !.it = taken'.it] ELSE scanner
    /\ UNCHANGED <<cstage, cin, cblob, cout, cblob2, sessionVars>>

ScannerNext == (\E n \in Amounts : Take(n)) \/ (\E n \in Amounts : Peek(n))

ScannerSpec == ScannerInit /\ [][ScannerNext]_vars

(***************************************************************************)
(* Properties of the codec                                                 *)
(***************************************************************************)
\* C10: for every primitive codec (u8, u16, u32, u64, bool, the
\* variable-length count, fixed arrays, vectors) decoding the encoding of a
\* value succeeds and yields that value; the inputs hold the count's
\* boundaries 0, 0xfc, 0xfd, 0xffff, 0x10000, 0xffffffff, 0x100000000 and
\* 2^64 - 1
PrimitiveRoundTrip ==
    (cstage \in {"decoded", "reencoded"} /\ cin.kind \in {"prim", "array", "Vec"})
        => (cout.ok /\ cout.v = cin.v)

\* the count 0x100000000 has been encoded with the 0xff tag and decoded
VarintBoundaryDecoded ==
    /\ cstage = "decoded"
    /\ cin.kind = "prim" /\ cin.ty = "usize"
    /\ cin.v = <<0, 0, 1, 0>>
    /\ cblob = <<255, 0, 0, 0, 0, 1, 0, 0, 0>>
    /\ cout.ok /\ cout.v = cin.v

\* C9: for every message of the ten variants decoding its envelope succeeds
\* and yields the message field by field, and the decoded message encodes to
\* the same bytes
MessageRoundTrip ==
    cin.kind = "BitcoinMsg" =>
        /\ cstage \in {"decoded", "reencoded"} => (cout.ok /\ cout.v = cin.v)
        /\ cstage = "reencoded" => cblob2 = cblob

\* a version message whose network flag is set has been decoded, and the
\* decoded message's flag is not set
ServicesFlagLost ==
    /\ cstage = "decoded"
    /\ cin.kind = "BitcoinMsg" /\ cin.v.tag = "Version"
    /\ cin.v.p.services.network
    /\ cout.ok /\ ~cout.v.p.services.network

\* C11 as stated: decoding the encoding of any socket address yields that
\* address
SocketAddrRoundTrip ==
    (cin.kind = "SocketAddr" /\ cstage \in {"decoded", "reencoded"})
        => (cout.ok /\ cout.v = cin.v)

\* C11, amended: the encoding is 18 bytes, the last two the port big-endian;
\* decoding it yields the port, a V4 address as the same V4 address, a V6
\* address outside ::ffff:0:0/96 as the same IP with flow information and
\* scope 0, and a V6 address inside ::ffff:0:0/96 as the V4 address of its
\* last four bytes
SocketAddrNormalized ==
    (cin.kind = "SocketAddr" /\ cstage \in {"decoded", "reencoded"})
        => /\ Len(cblob) = 18
           /\ cblob[17] * 256 + cblob[18] = cin.v.port
           /\ cout.ok /\ cout.it = 18
           /\ cout.v.port = cin.v.port
           /\ cin.v.v4 => cout.v = cin.v
           /\ (~cin.v.v4 /\ ~IsIpv4Mapped(cin.v.ip))
                => cout.v = [cin.v EXCEPT !.flowinfo = 0, !.scope_id = 0]
           /\ (~cin.v.v4 /\ IsIpv4Mapped(cin.v.ip))
                => cout.v = SocketAddr_new(TRUE, SubSeq(cin.v.ip, 13, 16),
                                           cin.v.port)

\* 127.0.0.1:8333 has been written as ::ffff:127.0.0.1 and port 0x208d, and
\* has come back as a V4 address
Ipv4CameBackAsIpv4 ==
    /\ cstage = "decoded" /\ cin.kind = "SocketAddr" /\ cin.v = Addr4
    /\ cblob = <<0, 0, 0, 0, 0, 0, 0, 0, 0, 0, 255, 255, 127, 0, 0, 1, 32, 141>>
    /\ cout.ok /\ cout.v.v4 /\ cout.v.ip = <<127, 0, 0, 1>>

\* the size field of the header that starts the bytes decoded
HeaderSize == from_le_bytes(SubSeq(cblob, 17, 20))[1]

\* C12: whenever BitcoinMsg::from_blob succeeds on a fresh Scanner, the
\* cursor has advanced by 24 + header.size
CursorAdvancedByEnvelope ==
    (DecodedKind(cin) = "BitcoinMsg" /\ cstage \in {"decoded", "reencoded"}
     /\ cout.ok)
        => cout.it = 24 + HeaderSize

\* a verack envelope announcing a payload of 5 bytes, with their check sum,
\* has been decoded as verack and the cursor stands at 24
CursorShortOfEnvelope ==
    /\ cstage = "decoded" /\ cin.kind = "raw"
    /\ cblob = Envelope(CommandOf("VerAck"), <<1, 2, 3, 4, 5>>)
    /\ HeaderSize = 5
    /\ cout.ok /\ cout.v = verack /\ cout.it = 24

\* the message of the run has been encoded by to_blob
EnvelopeProduced == cin.kind = "BitcoinMsg" /\ cstage # "input"

\* C13: for every message m, bytes 20..24 of to_blob(m) are the first four
\* bytes of SHA-256(SHA-256(payload bytes)) and the size field is the
\* payload's length; for verack, sendheaders and getaddr the check sum is
\* 5D F6 E0 E2 and the envelope has exactly 24 bytes
ChecksumIsDoubleSha ==
    EnvelopeProduced =>
        /\ SubSeq(cblob, 25, Len(cblob)) = PayloadBlob(cin.v)
        /\ SubSeq(cblob, 21, 24)
             = SubSeq(Sha256_digest(Sha256_digest(PayloadBlob(cin.v))), 1, 4)
        /\ from_le_bytes(SubSeq(cblob, 17, 20)) = U32(Len(PayloadBlob(cin.v)))
        /\ cin.v.tag \in {"VerAck", "SendHeaders", "GetAddr"}
               => /\ SubSeq(cblob, 21, 24) = <<93, 246, 224, 226>>
                  /\ Len(cblob) = 24

\* an addr message of two addresses has been encoded with a check sum that
\* is not the one of the empty payload
ChecksumOfPayloadWritten ==
    /\ EnvelopeProduced /\ cstage = "encoded"
    /\ cin.v.tag = "Addr" /\ Len(cin.v.p.addr_list) = 2
    /\ Len(cblob) > 24
    /\ SubSeq(cblob, 21, 24) # <<93, 246, 224, 226>>

(***************************************************************************)
(* Properties of the session                                               *)
(***************************************************************************)
Last(s) == s[Len(s)]

\* the worker takes a command c off the queue in this step
Applied(c) ==
    /\ pc = "drain" /\ cmdq # <<>> /\ Head(cmdq).cmd = c
    /\ Len(cmdq') < Len(cmdq)

\* Client::connect is running
InHandshake ==
    pc \in {"hs_send_version", "hs_read_version", "hs_read_verack",
            "hs_send_verack", "hs_finish"}

\* a read of an envelope that decodes to a message of variant tag
ReadOf(tag, e) ==
    /\ e.op = "read"
    /\ BitcoinMsg_from_blob(e.bytes, 0).ok
    /\ BitcoinMsg_from_blob(e.bytes, 0).v.tag = tag

\* the TCP events of the connection since connect wrote its version
HandshakeEvents(n) ==
    /\ Len(sock) >= n
    /\ sock[Len(sock) - n + 1]
         = Written(stream.id, BitcoinMsg_to_blob(ConnectVersion(caddr)))
    /\ n >= 2 => ReadOf("Version", sock[Len(sock) - n + 2])
    /\ n >= 3 => ReadOf("VerAck", sock[Len(sock) - n + 3])
    /\ n >= 4 => sock[Len(sock) - n + 4]
                   = Written(stream.id, BitcoinMsg_to_blob(verack))
    /\ \A i \in (Len(sock) - n + 1)..Len(sock) : sock[i].id = stream.id

HandshakeOrder ==
    /\ pc = "hs_read_version" => HandshakeEvents(1)
    /\ pc = "hs_read_verack" => HandshakeEvents(2)
    /\ pc = "hs_send_verack" => HandshakeEvents(3)
    /\ pc = "hs_finish" => HandshakeEvents(4)

\* C1: while connect runs, the TCP events of the connection are, in this
\* order and with nothing between them, write version, read version, read
\* verack, write verack; and from the start of connect to its completion no
\* command is taken off the command queue
HandshakeOrdered ==
    /\ []HandshakeOrder
    /\ [][InHandshake => Len(cmdq') >= Len(cmdq)]_vars

\* connect has written its verack while a command waits on the queue
HandshakeDoneCommandWaiting ==
    /\ pc = "hs_finish" /\ cmdq # <<>>
    /\ Last(sock) = Written(stream.id, BitcoinMsg_to_blob(verack))

\* C2: when connect reads a message that is not the version, or not the
\* verack, it expects, connect ends without writing to the socket and the
\* session holds no endpoint afterwards
ProtocolErrorDisconnects ==
    [][(pc \in {"hs_read_version", "hs_read_verack"} /\ pc' = "drain")
          => (~stream'.open /\ Len(sock') = Len(sock) + 1
              /\ Last(sock').op = "read")]_vars

\* a SendMessage ping has been written to the endpoint of a handshake that
\* ended in a protocol error
SentAfterProtocolError ==
    /\ pc = "drain" /\ stream.open /\ ~stream.read_timeout
    /\ Len(sock) >= 3
    /\ sock[Len(sock) - 2]
         = Written(stream.id, BitcoinMsg_to_blob(ConnectVersion(caddr)))
    /\ ReadOf("VerAck", sock[Len(sock) - 1])
    /\ Last(sock) = Written(stream.id, BitcoinMsg_to_blob(ping(U64(7))))

\* C3: a Connect taken off the queue while an endpoint is held is refused:
\* an Error record is logged, no TCP connection is opened, nothing is
\* written and the endpoint is kept
ConnectRefusedWhileConnected ==
    [][(Applied("Connect") /\ stream.open)
          => (/\ nconn' = nconn /\ stream' = stream /\ sock' = sock
              /\ Len(logq') > Len(logq) /\ Last(logq').kind = "Error"
              /\ pc' = "drain")]_vars

\* a second connection has replaced the first and carries a version
SecondConnectionOpened ==
    /\ nconn = 2 /\ stream.open /\ stream.id = 2
    /\ \E i \in 1..Len(sock) : sock[i].op = "write" /\ sock[i].id = 1
    /\ Last(sock) = Written(2, BitcoinMsg_to_blob(ConnectVersion(caddr)))

\* C4: a SendMessage taken off the queue while no endpoint is held logs an
\* Error record, writes nothing to any socket and leaves the session as it
\* was: no endpoint, the worker draining commands
SendRefusedWhileDisconnected ==
    [][(Applied("SendBtcMsg") /\ ~stream.open)
          => (/\ Len(logq') > Len(logq) /\ Last(logq').kind = "Error"
              /\ sock' = sock /\ stream' = stream /\ nconn' = nconn
              /\ pc' = "drain")]_vars

\* a ping command has met no endpoint: its Info record, then the Error
SendRefusedLogged ==
    /\ pc = "drain" /\ ~stream.open /\ sock = <<>>
    /\ Len(logq) >= 2
    /\ logq[Len(logq) - 1] = LogMsg_info("Sending ping with value", U64(7))
    /\ Last(logq)
         = LogMsg_err("Could not send message, client not connected", <<>>)

\* the envelope the worker writes in answer to the ping it has read
PongOfRead == Written(stream.id, BitcoinMsg_to_blob(pong(msg.m.p)))

\* the worker has read a ping and is about to answer it
PingRead == pc = "dispatch" /\ msg.m.tag = "Ping"

\* C5 as stated: after the pong that answers a ping read by a connected
\* session, no bytes are written before the worker's next read attempt,
\* whatever commands wait on the command queue
OnlyPongBeforeNextRead ==
    [][(/\ pc = "drain" /\ stream.open /\ stream.read_timeout
        /\ msg.res = "Ok" /\ msg.m.tag = "Ping"
        /\ sock # <<>> /\ Last(sock) = PongOfRead)
          => sock' = sock]_vars

\* C5, amended: the ping the worker has read is the last TCP event, and the
\* next one is the write of exactly the pong(n) envelope, made before any
\* command is taken off the queue; if that write fails nothing is written
\* and the worker ends
PongIsNextWrite ==
    /\ [](PingRead => (sock # <<>> /\ ReadOf("Ping", Last(sock))
                       /\ Last(sock).id = stream.id))
    /\ [][PingRead
            => (/\ Len(cmdq') >= Len(cmdq)
                /\ \/ pc' = "dispatch" /\ sock' = sock
                   \/ pc' = "drain" /\ sock' = Append(sock, PongOfRead)
                   \/ pc' = "returned" /\ sock' = sock /\ peer = "reset")]_vars

\* after a completed handshake the worker has read ping(42) and written
\* pong(42)
PongWritten ==
    /\ pc = "drain" /\ stream.open /\ stream.read_timeout
    /\ msg.res = "Ok" /\ msg.m.tag = "Ping" /\ msg.m.p = U64(42)
    /\ Len(sock) >= 6
    /\ ReadOf("Ping", sock[Len(sock) - 1])
    /\ Last(sock) = Written(stream.id, BitcoinMsg_to_blob(pong(U64(42))))

\* a steady-state read that fails with an I/O error other than WouldBlock
\* or TimedOut
FatalReadError ==
    /\ pc = "read" /\ stream.open /\ stream.read_timeout
    /\ pc' = "drain" /\ msg'.res = "IoErr" /\ msg'.kind # "WouldBlock"

\* C6: a steady-state read that fails with a fatal I/O error logs an Error
\* record and drops the endpoint
FatalReadErrorDisconnects ==
    [][FatalReadError
          => (/\ Len(logq') > Len(logq) /\ Last(logq').kind = "Error"
              /\ ~stream'.open)]_vars

\* after the peer closed the connection the read has failed and been logged,
\* and the endpoint is still held
EndpointKeptAfterEof ==
    /\ pc = "drain" /\ peer = "eof"
    /\ stream.open /\ stream.read_timeout
    /\ msg.res = "IoErr" /\ msg.kind = "UnexpectedEof"
    /\ logq # <<>> /\ Last(logq) = LogMsg_err("Failed to read Message", <<>>)

\* the bytes received hold a whole envelope whose check sum is not that of
\* its payload
ChecksumMismatch(in) ==
    /\ Len(in) >= 24
    /\ SubSeq(in, 1, 4) = Magic
    /\ from_le_bytes(SubSeq(in, 17, 20))[2] = 0
    /\ Len(in) >= 24 + from_le_bytes(SubSeq(in, 17, 20))[1]
    /\ get_check_sum(SubSeq(in, 25, 24 + from_le_bytes(SubSeq(in, 17, 20))[1]))
         # SubSeq(in, 21, 24)

\* C7: when a connected session reads a message whose check sum does not
\* match its payload, it logs an Error record, discards the message and
\* stays connected with the worker back at draining commands
CorruptedMessageDiscarded ==
    [][(/\ pc = "read" /\ stream.open /\ stream.read_timeout
        /\ ChecksumMismatch(inbox) /\ pc' # "read")
          => (/\ Len(logq') > Len(logq) /\ Last(logq').kind = "Error"
              /\ inbox' = <<>> /\ stream' = stream
              /\ pc' = "drain")]_vars

\* after a completed handshake, reading the corrupted ping has ended the
\* worker's thread with a panic
PanickedOnCorruptedMessage ==
    /\ pc = "panicked" /\ ~stream.open
    /\ Len(sock) >= 5
    /\ sock[Len(sock) - 1].op = "write"
    /\ sock[Len(sock) - 1].bytes = BitcoinMsg_to_blob(verack)
    /\ Last(sock).op = "read" /\ Last(sock).id = sock[Len(sock) - 1].id
    /\ Last(sock).bytes = BadChecksumBlob

\* C8: reading a message with an unknown command or a malformed payload
\* does not end the worker: a Warn or Error record is logged, the message
\* is discarded and the worker is back at draining commands with the
\* endpoint it had
UndecodableMessageSurvived ==
    [][(/\ pc = "read" /\ stream.open
        /\ inbox \in {UnknownCommandBlob, OverrunBlob} /\ pc' # "read")
          => (/\ Len(logq') > Len(logq)
              /\ Last(logq').kind \in {"Warn", "Error"}
              /\ inbox' = <<>> /\ stream' = stream
              /\ pc' = "drain")]_vars

\* reading the envelope of the unknown command "foo" has ended the worker's
\* thread with a panic
PanickedOnUnknownCommand ==
    /\ pc = "panicked"
    /\ sock # <<>> /\ Last(sock).op = "read"
    /\ Last(sock).bytes = UnknownCommandBlob

\* C14: the command queue is lossless: every command the controller sends
\* is drained and applied by the worker, whatever the peer produced before,
\* and sending a command never fails.  So the worker's thread never ends
\* with a command left in the queue, and tx.send(..).unwrap() never panics
QueueLossless ==
    /\ ctl = "running"
    /\ WorkerDead => cmdq = <<>>

\* the worker's thread has ended on the corrupted ping while a command
\* waited in the queue
CommandStranded ==
    /\ pc = "panicked" /\ cmdq # <<>>
    /\ sock # <<>> /\ Last(sock) = ReadEv(1, BadChecksumBlob)
    /\ ctl = "running"

\* the writes of the commands' messages, in the order of the socket
CommandWrites ==
    SelectSeq(sock, LAMBDA e :
        /\ e.op = "write"
        /\ \E i \in 1..MaxSends : e.bytes = BitcoinMsg_to_blob(SendOrder[i].arg))

\* the commands the worker has taken off the queue
Drained == issued - 1 - Len(cmdq)

\* C15: while Connected, the envelopes written for SendMessage commands are
\* on the socket in the order in which the controller enqueued the
\* commands, whatever the peer sends in between and whatever pong the
\* worker writes on its own: the writes are those of the first commands of
\* SendOrder, of all that were drained while the worker's thread runs
SendsInOrder ==
    /\ Len(CommandWrites) <= Drained
    /\ \A i \in 1..Len(CommandWrites) :
          CommandWrites[i] = Written(1, BitcoinMsg_to_blob(SendOrder[i].arg))
    /\ ~WorkerDead => Len(CommandWrites) = Drained

\* the ping and the getaddr of two commands are on the socket with the pong
\* for the peer's ping between them
PongBetweenSends ==
    /\ Len(sock) = 8
    /\ sock[5] = Written(1, BitcoinMsg_to_blob(ping(U64(7))))
    /\ sock[6].op = "read"
    /\ sock[7] = Written(1, BitcoinMsg_to_blob(pong(U64(42))))
    /\ sock[8] = Written(1, BitcoinMsg_to_blob(getaddr))
    /\ cmdq = <<SendOrder[3]>>

\* C16: Disconnect is idempotent: after any Disconnect no endpoint is held;
\* a Disconnect applied to a session that holds none changes no state of
\* the session, writes nothing to a socket and is no error (the worker goes
\* on, what it logs is an Info record), so a second Disconnect leaves the
\* state the first one left
DisconnectIdempotent ==
    [][Applied("Disconnect")
         => /\ ~stream'.open
            /\ ~stream.open
                 => /\ <<pc, stream, msg, caddr, nconn, peer, inbox>>'
                       = <<pc, stream, msg, caddr, nconn, peer, inbox>>
                    /\ sock' = sock
                    /\ Len(logq') = Len(logq) + 1
                    /\ Last(logq').kind = "Info"]_vars

\* two Disconnects have been applied one after the other: the second has
\* found no endpoint, and the worker is at its loop
DisconnectedTwice ==
    /\ pc = "drain" /\ ~stream.open /\ cmdq = <<>> /\ issued = 2
    /\ logq = <<disconnect_log(FALSE), disconnect_log(FALSE)>>
    /\ sock = <<>>

\* the session meets an error in this step: the worker's thread ends (an
\* I/O error that bitcoin_handling returns, or a panic in from_blob), the
\* handshake finds another message than the one it requires, a send is
\* refused for want of a connection, or a read of the loop fails for good
ErrorStep ==
    \/ ~WorkerDead /\ WorkerDead'
    \/ pc \in {"hs_read_version", "hs_read_verack"} /\ pc' = "drain"
    \/ Applied("SendBtcMsg") /\ ~stream.open
    \/ pc = "hs_send_version" /\ ~stream.open /\ pc' = "drain"
    \/ /\ pc = "read" /\ stream.open /\ pc' = "drain"
       /\ msg'.res = "IoErr" /\ msg'.kind # "WouldBlock"

\* C17: every error the session meets (fatal I/O error on read or write,
\* NotConnected refusal, handshake protocol error, decode, check sum or
\* unsupported command error) puts at least one record of level Warn or
\* Error on the log queue
EveryErrorLogged ==
    [][ErrorStep
         => \E i \in (Len(logq) + 1)..Len(logq') :
               logq'[i].kind \in {"Warn", "Error"}]_vars

\* the handshake has ended on the peer's verack in the place of its
\* version, and the log queue is empty
ProtocolErrorUnlogged ==
    /\ pc = "drain" /\ stream.open /\ ~stream.read_timeout
    /\ Len(sock) = 2
    /\ sock[1] = Written(1, BitcoinMsg_to_blob(ConnectVersion(caddr)))
    /\ sock[2] = ReadEv(1, BitcoinMsg_to_blob(verack))
    /\ logq = <<>>

\* C18: whenever the steady loop reads on an endpoint it holds, the read
\* timeout of that endpoint has been set, so that a silent peer cannot keep
\* the loop from coming back to the command queue
ReadTimeoutSet == (pc = "read" /\ stream.open) => stream.read_timeout

\* the loop reads on the endpoint that a failed handshake has left without a
\* read timeout; the peer is silent, the read does not return, and a
\* command waits in the queue
BlockedOnSilentPeer ==
    /\ pc = "read" /\ stream.open /\ ~stream.read_timeout
    /\ peer = "open" /\ inbox = <<>>
    /\ read_msg(inbox, peer, stream.read_timeout) = Blocked
    /\ cmdq # <<>>

\* the bitfield with bit k set for every flag that is true: network is bit
\* 1, getutxo 2, bloom 3, witness 4, xthin 5, compact_filters 7 and
\* network_limited 10
FlagBits(s) ==
    (IF s.network THEN 2 ELSE 0) + (IF s.getutxo THEN 4 ELSE 0)
    + (IF s.bloom THEN 8 ELSE 0) + (IF s.witness THEN 16 ELSE 0)
    + (IF s.xthin THEN 32 ELSE 0) + (IF s.compact_filters THEN 128 ELSE 0)
    + (IF s.network_limited THEN 1024 ELSE 0)

\* C19: Services::to_blob sets bit k of the u64 exactly when the flag of bit
\* k is true and leaves every other bit zero, and from_blob reads the same
\* bits: decoding the encoding of each of the 128 combinations of flags
\* yields that combination
ServicesBitsSet ==
    (cin.kind = "Services" /\ cstage # "input")
        => /\ cblob = u64_to_blob(U64(FlagBits(cin.v)))
           /\ cstage \in {"decoded", "reencoded"}
                => (cout.ok /\ cout.v = cin.v)

\* the Services with the flags witness and network_limited set have been
\* encoded as eight zero bytes and decoded as Services without a flag
ServicesBitfieldZero ==
    /\ cin.kind = "Services" /\ cstage = "decoded"
    /\ cin.v = [DefaultServices EXCEPT !.witness = TRUE,
                                       !.network_limited = TRUE]
    /\ cblob = <<0, 0, 0, 0, 0, 0, 0, 0>>
    /\ cout.ok /\ cout.v = DefaultServices

\* the length of the shortest form that holds the count v: one byte below
\* 0xfd, a tag and 2 bytes up to 0xffff, a tag and 4 bytes up to 0xffffffff,
\* a tag and 8 bytes above
ShortestLen(v) ==
    IF v[2] = 0 /\ v[3] = 0 /\ v[4] = 0
    THEN (IF v[1] < 253 THEN 1 ELSE 3)
    ELSE IF v[3] = 0 /\ v[4] = 0 THEN 5 ELSE 9

\* C20: for every count the encoder emits the shortest form that holds it
\* (0xfc -> [FC], 0xfd -> [FD FD 00], 0x10000 -> [FE 00 00 01 00]): the tag
\* of that length and the count's low bytes little-endian; the decoder
\* accepts the forms that are longer than needed, such as 0x10 after the tag
\* 0xfd, and reads the count that follows the tag
VarintShortest ==
    /\ (cin.kind = "prim" /\ cin.ty = "usize" /\ cstage # "input")
         => /\ Len(cblob) = ShortestLen(cin.v)
            /\ cblob[1] = (CASE Len(cblob) = 1 -> cin.v[1]
                             [] Len(cblob) = 3 -> 253
                             [] Len(cblob) = 5 -> 254
                             [] OTHER -> 255)
            /\ Tail(cblob) = SubSeq(u64_to_blob(cin.v), 1, Len(cblob) - 1)
            /\ cin.v = U64(252) => cblob = <<252>>
            /\ cin.v = U64(253) => cblob = <<253, 253, 0>>
            /\ cin.v = <<0, 1, 0, 0>> => cblob = <<254, 0, 0, 1, 0>>
    /\ (cin.kind = "raw" /\ cin.ty = "usize"
        /\ cstage \in {"decoded", "reencoded"})
         => /\ cout.ok /\ cout.it = Len(cblob)
            /\ u64_to_blob(cout.v)
                 = Tail(cblob) \o [i \in 1..(9 - Len(cblob)) |-> 0]

\* the bytes FD 10 00 have been decoded as the count 0x10, which the encoder
\* writes as the one byte 10
NonMinimalCountDecoded ==
    /\ cstage = "reencoded"
    /\ cin.kind = "raw" /\ cin.ty = "usize"
    /\ cblob = <<253, 16, 0>>
    /\ cout.ok /\ cout.v = U64(16)
    /\ cblob2 = <<16>>

\* the bytes of a command field that precede its first NUL
PrefixBeforeNul(command) ==
    IF \E i \in 1..Len(command) : command[i] = 0
    THEN SubSeq(command, 1,
                (CHOOSE i \in 1..Len(command) :
                    /\ command[i] = 0
                    /\ \A j \in 1..(i - 1) : command[j] # 0) - 1)
    ELSE command

\* C21: for every header that from_blob accepts, the command that names the
\* decoded variant is the sequence of bytes of the 12-byte command field that
\* precede the field's first NUL
CommandIsPrefixBeforeNul ==
    (cstage = "decoded" /\ cin.kind = "raw" /\ cin.ty = "BitcoinMsg" /\ cout.ok)
        => CommandOf(cout.v.tag) = PrefixBeforeNul(SubSeq(cblob, 5, 16))

\* the header with the command field "pi", NUL, "ng" has been decoded as a
\* ping, though "pi" precedes the field's first NUL
NulInsideCommandDecoded ==
    /\ cstage = "decoded"
    /\ cin.kind = "raw" /\ cin.ty = "BitcoinMsg" /\ cin.v = NulInsideCommandBlob
    /\ cout.ok /\ cout.v = ping(U64(42))
    /\ PrefixBeforeNul(SubSeq(cblob, 5, 16)) = <<112, 105>>

\* the bytes [cursor, cursor + n) of the scanner as it stands before a call
SliceReturned(n) ==
    /\ taken'.ok
    /\ Len(taken'.v) = n
    /\ \A i \in 1..n : taken'.v[i] = scanner.bytes[scanner.it + i]

\* C22: after any sequence of take and peek calls cursor <= length; take(n)
\* with cursor + n <= length returns bytes[cursor, cursor + n) and advances
\* the cursor by exactly n; peek(n) returns the same slice and leaves the
\* cursor unchanged; a take or peek with cursor + n > length fails and leaves
\* the cursor unchanged
ScannerCursorLaw ==
    [][/\ scanner'.it <= Len(scanner'.bytes)
       /\ scanner'.bytes = scanner.bytes
       /\ \A n \in Amounts :
            /\ Take(n) =>
                 IF scanner.it + n <= Len(scanner.bytes)
                 THEN SliceReturned(n) /\ scanner'.it = scanner.it + n
                 ELSE ~taken'.ok /\ scanner'.it = scanner.it
            /\ Peek(n) =>
                 IF scanner.it + n <= Len(scanner.bytes)
                 THEN SliceReturned(n) /\ scanner'.it = scanner.it
                 ELSE ~taken'.ok /\ scanner'.it = scanner.it]_vars

\* three of four bytes have been taken and a call for more than the one that
\* is left has failed
RefusedPastEnd ==
    /\ scanner = [bytes |-> <<11, 12, 13, 14>>, it |-> 3]
    /\ taken = Panic

\* the envelope of the pong the peer answers a ping of 7 with
PongBlob == BitcoinMsg_to_blob(pong(U64(7)))

\* C23: in one iteration of the steady loop the worker first drains the
\* command queue (each queued send on the connected session writes its
\* envelope, in queue order, and the read is not reached while a command is
\* queued), then attempts one read, in which a pending pong is read, and logs
\* that pong, without handling a command in between
DrainThenRead ==
    [][/\ (pc = "drain" /\ pc' = "read") => cmdq = <<>>
       /\ (pc = "drain" /\ cmdq # <<>> /\ <<pc, cmdq, sock>>' # <<pc, cmdq, sock>>
           /\ Len(cmdq') <= Len(cmdq)) =>
             /\ cmdq' = Tail(cmdq)
             /\ (Head(cmdq).cmd = "SendBtcMsg" /\ stream.open /\ peer # "reset") =>
                  /\ pc' = "drain"
                  /\ sock' = Append(sock, Written(stream.id,
                                                  BitcoinMsg_to_blob(Head(cmdq).arg)))
       /\ pc \in {"read", "dispatch"} =>
             /\ Len(cmdq') >= Len(cmdq)
             /\ SubSeq(cmdq', 1, Len(cmdq)) = cmdq
       /\ (pc = "read" /\ pc' # "read" /\ stream.open /\ peer # "reset"
           /\ inbox = PongBlob) =>
             /\ pc' = "dispatch"
             /\ msg'.m = pong(U64(7))
             /\ sock' = Append(sock, ReadEv(stream.id, PongBlob))
             /\ inbox' = <<>>
       /\ (pc = "dispatch" /\ pc' # "dispatch" /\ msg.m.tag = "Pong") =>
             /\ pc' = "drain"
             /\ logq' = Append(logq, LogMsg_info("Received pong with value", msg.m.p))
             /\ sock' = sock]_vars

\* a ping and a getaddr have been written, in the order they were queued, the
\* pong that was pending has been read after them and logged, and the worker
\* is back at the head of the loop
PongLoggedAfterDrain ==
    /\ pc = "drain"
    /\ Len(sock) = 7
    /\ SubSeq(sock, 5, 7) = <<Written(1, BitcoinMsg_to_blob(ping(U64(7)))),
                              Written(1, BitcoinMsg_to_blob(getaddr)),
                              ReadEv(1, PongBlob)>>
    /\ Last(logq) = LogMsg_info("Received pong with value", U64(7))

\* the variants that bitcoin_handling's match has no arm for
UnhandledTags ==
    {"Version", "VerAck", "SendHeaders", "SendCmpct", "FeeFilter", "GetAddr"}

\* C24: in steady state an inbound message that is not ping, pong, inv or
\* addr (version, verack, sendheaders, sendcmpct, feefilter, getaddr) produces
\* a log record, causes no socket write, and leaves the session connected
\* with the same endpoint
UnhandledOnlyLogged ==
    [][(pc = "dispatch" /\ pc' # "dispatch" /\ msg.m.tag \in UnhandledTags) =>
          /\ Len(logq') = Len(logq) + 1
          /\ SubSeq(logq', 1, Len(logq)) = logq
          /\ sock' = sock
          /\ stream.open /\ stream' = stream
          /\ pc' = "drain"]_vars

\* a feefilter has been read in steady state and the worker is back at the
\* head of the loop, with the stream of the handshake
FeeFilterDispatched ==
    /\ pc = "drain"
    /\ msg.res = "Ok" /\ msg.m = UnhandledMsgs[3]
    /\ Last(sock) = ReadEv(1, BitcoinMsg_to_blob(UnhandledMsgs[3]))
    /\ Len(logq) = 2
    /\ stream = SomeStream(1, TRUE)

\* TcpStream::connect has failed in the Client::connect that is running
OpenFailed == pc = "hs_send_version" /\ peer = "none"

\* C25: if opening the TCP connection fails during connect, no bytes are
\* written to any socket, an Error log record is emitted, the session is
\* disconnected afterwards, and the worker keeps running and goes back to
\* draining the command queue
ConnectFailureLogged ==
    [][/\ (pc = "drain" /\ pc' = "hs_send_version" /\ nconn' = nconn) =>
             /\ OpenFailed'
             /\ sock' = sock /\ logq' = logq
       /\ (OpenFailed /\ pc' # pc) =>
             /\ sock' = sock
             /\ Len(logq') = Len(logq) + 1
             /\ SubSeq(logq', 1, Len(logq)) = logq
             /\ Last(logq').kind = "Error"
             /\ ~stream'.open
             /\ pc' = "drain"
             /\ cmdq' = cmdq]_vars

\* the only connect has failed: nothing was written, the error is logged,
\* and the worker has gone on to apply the Disconnect queued behind it
DisconnectAfterFailedOpen ==
    /\ pc = "drain"
    /\ nconn = 0 /\ sock = <<>>
    /\ stream = NoStream
    /\ logq = <<LogMsg_err("Could not send message, client not connected", <<>>),
                disconnect_log(FALSE)>>

\* C26: on receiving addr(list) in steady state the worker logs the element
\* count and then one record per element, in list order, whether the
\* element's timestamp is earlier or later than the clock, and afterwards the
\* session is still connected and the worker running
AddrAllLogged ==
    [][(pc = "dispatch" /\ pc' # pc /\ msg.m.tag = "Addr"
        /\ stream.open /\ stream.read_timeout) =>
          /\ logq' = logq
                     \o <<LogMsg_info("Found nodes", <<Len(msg.m.p.addr_list)>>)>>
                     \o [i \in 1..Len(msg.m.p.addr_list) |->
                           LogMsg_info("addr", msg.m.p.addr_list[i].timestamp)]
          /\ pc' = "drain"
          /\ stream.open /\ stream' = stream]_vars

\* an addr of two elements, the second a minute later than the clock: the
\* count and the first element are logged and the worker's thread has
\* panicked
PanickedOnFutureTimestamp ==
    /\ pc = "panicked"
    /\ msg.res = "Ok" /\ msg.m.tag = "Addr"
    /\ Len(msg.m.p.addr_list) = 2
    /\ msg.m.p.addr_list[2].timestamp = Later
    /\ Len(logq) = 3
    /\ logq[1] = LogMsg_info("Connected to address", <<>>)
    /\ logq[2] = LogMsg_info("Found nodes", <<2>>)
    /\ logq[3] = LogMsg_info("addr", Earlier)

\* the size field of the header at the front of the unread bytes
SizeAnnounced == inbox[17] + 256 * inbox[18] + 65536 * inbox[19]

\* read_msg has returned Ok in this step
ReadSucceeded ==
    /\ pc \in {"read", "hs_read_version", "hs_read_verack"}
    /\ Len(sock') = Len(sock) + 1
    /\ pc' # "panicked"

\* C27: each successful read_msg removes exactly 24 + header.size bytes from
\* the stream, however many payload bytes the payload's decoder consumes, so
\* that the next read_msg starts at the first byte of the next header (the
\* 24 bytes of the header being there for the peek)
ReadRemovesEnvelope ==
    [][(ReadSucceeded /\ Len(inbox) >= 24) =>
          /\ Len(inbox) >= 24 + SizeAnnounced
          /\ Last(sock') = ReadEv(stream.id, SubSeq(inbox, 1, 24 + SizeAnnounced))
          /\ inbox' = SubSeq(inbox, 25 + SizeAnnounced, Len(inbox))]_vars

\* the verack with 5 payload bytes has been read as 29 bytes, and the pong
\* that stood behind it has been read next and logged
PongReadBehindPaddedVerack ==
    /\ Len(sock) = 6
    /\ sock[5] = ReadEv(1, PaddedVerackBlob)
    /\ sock[6] = ReadEv(1, BitcoinMsg_to_blob(pong(U64(7))))
    /\ Last(logq) = LogMsg_info("Received pong with value", U64(7))
    /\ inbox = <<>>

\* C28: Client::connect always terminates, with success or an error, whatever
\* the peer does, also when the peer accepts the connection and then sends
\* neither version nor verack; hence the worker always comes back to
\* draining the command queue
ConnectTerminates == InHandshake ~> ~InHandshake

\* the version has been written and the peer, which accepted the connection,
\* has sent nothing: the first read of the handshake waits without a timeout
\* and a Disconnect waits in the queue
HandshakeBlockedOnSilentPeer ==
    /\ pc = "hs_read_version"
    /\ stream.open /\ ~stream.read_timeout
    /\ peer = "open" /\ inbox = <<>> /\ delivered = 0
    /\ read_msg(inbox, peer, stream.read_timeout) = Blocked
    /\ ~ENABLED Worker
    /\ cmdq = <<Disconnect>>

=============================================================================
